---------------------------- MODULE Spec2Model ----------------------------
(***************************************************************************)
(* Shelter Availability Resolution Pipeline of dk-shelter-web-search.      *)
(*                                                                         *)
(* The repository holds several rewritten variants of pages/api/search.ts. *)
(* One handler invocation is modelled as a state machine; the variable     *)
(* `variant` says which variant's code runs:                               *)
(*   p004  src/unnamed/part_004  (static place-id map, ISO-8859-1 fetcher)  *)
(*   p005  src/unnamed/part_005  (in-memory ID_CACHE, numeric id only)      *)
(*   p006  src/unnamed/part_006  (first prototype, single list request)     *)
(*   p007a src/unnamed/part_007 lines 1-358   (slug first, id second)       *)
(*   p007b src/unnamed/part_007 lines 360-645 (no cookie jar, flex fetch)   *)
(*   p008  src/unnamed/part_008  (cookie jar, flex fetch {ok, dates});      *)
(*         the pipeline of src/pages/api/search.ts is the same code.        *)
(* Every outbound request is one step; the upstream's answer to it is a     *)
(* nondeterministic choice.                                                 *)
(***************************************************************************)
EXTENDS Integers, Sequences, FiniteSets, TLC

(***************************************************************************)
(* Bounds of the model (not program constants).                            *)
(***************************************************************************)
\* the upstream catalog serves at most this many usable rows in one run
MaxCatalog == 2
\* the upstream answers at most this many page requests with a full page
MaxFullPages == 2

(***************************************************************************)
(* Program constants.                                                      *)
(***************************************************************************)
PageSize == 200
PageLimit == 500
TYPE_IDS == {3012, 3031, 3091}

\* JavaScript null and NaN; identifiers and row counts are >= 0
Null == -1
NaN == -2

Variants == {"p004", "p005", "p006", "p007a", "p007b", "p008"}
\* variants whose requests go through a CookieJar and that warm the session up first
JarVariants == {"p005", "p007a", "p008"}
\* variants with the paginated fetchAllPlaces
PagingVariants == Variants \ {"p006"}

(***************************************************************************)
(* Strings are sequences of one-character strings.                         *)
(***************************************************************************)
Digits == {"0", "1", "2", "3", "4", "5", "6", "7", "8", "9"}

DigitVal(c) ==
  CASE c = "0" -> 0 [] c = "1" -> 1 [] c = "2" -> 2 [] c = "3" -> 3 [] c = "4" -> 4
    [] c = "5" -> 5 [] c = "6" -> 6 [] c = "7" -> 7 [] c = "8" -> 8 [] c = "9" -> 9

RECURSIVE DigitsVal(_)
DigitsVal(s) ==
  IF s = <<>> THEN 0 ELSE 10 * DigitsVal(SubSeq(s, 1, Len(s) - 1)) + DigitVal(s[Len(s)])

AllDigits(s) == \A k \in 1..Len(s) : s[k] \in Digits

\* Number(x) for the query strings the model feeds: a digit string is its value,
\* anything else is NaN ("" never reaches Number: the handlers read `x || default`)
ToNumber(s) == IF s # <<>> /\ AllDigits(s) THEN DigitsVal(s) ELSE NaN

\* /^\d{4}-\d{2}-\d{2}$/.test(start)
MatchesYMD(s) ==
  /\ Len(s) = 10
  /\ s[5] = "-" /\ s[8] = "-"
  /\ \A k \in {1, 2, 3, 4, 6, 7, 9, 10} : s[k] \in Digits

(***************************************************************************)
(* Dates: new Date(start + "T00:00:00Z"), setUTCDate, toISOString.          *)
(* A time value is a day number (days since 2025-01-01, UTC); an ISO day    *)
(* string "YYYY-MM-DD" is the triple <<y, m, d>>.                           *)
(***************************************************************************)
InvalidDate == -100000

IsLeap(y) == (y % 4 = 0 /\ y % 100 # 0) \/ y % 400 = 0
DaysInMonth(y, m) ==
  IF m = 2 THEN (IF IsLeap(y) THEN 29 ELSE 28)
  ELSE IF m \in {4, 6, 9, 11} THEN 30 ELSE 31
LeapsBefore(y) == ((y - 1) \div 4) - ((y - 1) \div 100) + ((y - 1) \div 400)
YearStart(y) == 365 * (y - 2025) + LeapsBefore(y) - LeapsBefore(2025)
RECURSIVE MonthStart(_, _)
MonthStart(y, m) == IF m = 1 THEN 0 ELSE MonthStart(y, m - 1) + DaysInMonth(y, m - 1)
DayNumber(y, m, d) == YearStart(y) + MonthStart(y, m) + (d - 1)

\* new Date("YYYY-MM-DDT00:00:00Z") on a string that passed the format test:
\* month outside 1..12 or day outside 1..31 gives an Invalid Date
ParseDate(s) ==
  LET y == DigitsVal(SubSeq(s, 1, 4))
      m == DigitsVal(SubSeq(s, 6, 7))
      d == DigitsVal(SubSeq(s, 9, 10))
  IN  IF m \in 1..12 /\ d \in 1..31 THEN DayNumber(y, m, d) ELSE InvalidDate

\* the calendar day of a time value (the fields toISOString prints)
YearsWindow == 2024..2027
ToYMD(n) ==
  CHOOSE t \in YearsWindow \X (1..12) \X (1..31) :
    t[3] <= DaysInMonth(t[1], t[2]) /\ DayNumber(t[1], t[2], t[3]) = n

(***************************************************************************)
(* RegionClassifier: PRESETS, ALIAS, norm, resolveRegionName.               *)
(* Coordinates are in hundredths of a degree.                               *)
(***************************************************************************)
K_sjaelland == <<"s", "j", "æ", "l", "l", "a", "n", "d">>
K_fyn == <<"f", "y", "n">>
K_jylland == <<"j", "y", "l", "l", "a", "n", "d">>
K_bornholm == <<"b", "o", "r", "n", "h", "o", "l", "m">>
K_lolland_falster ==
  <<"l", "o", "l", "l", "a", "n", "d", "-", "f", "a", "l", "s", "t", "e", "r">>
K_moen == <<"m", "ø", "n">>
K_amager == <<"a", "m", "a", "g", "e", "r">>

PresetKeys ==
  {K_sjaelland, K_fyn, K_jylland, K_bornholm, K_lolland_falster, K_moen, K_amager}

\* [latMin, latMax, lonMin, lonMax]
PRESETS(k) ==
  CASE k = K_sjaelland -> <<5460, 5595, 1100, 1280>>
    [] k = K_fyn -> <<5500, 5560, 960, 1080>>
    [] k = K_jylland -> <<5455, 5780, 800, 1060>>
    [] k = K_bornholm -> <<5500, 5540, 1460, 1530>>
    [] k = K_lolland_falster -> <<5450, 5495, 1105, 1230>>
    [] k = K_moen -> <<5485, 5508, 1215, 1260>>
    [] k = K_amager -> <<5555, 5575, 1245, 1275>>

Lower(c) ==
  CASE c = "A" -> "a" [] c = "B" -> "b" [] c = "D" -> "d" [] c = "E" -> "e"
    [] c = "F" -> "f" [] c = "J" -> "j" [] c = "L" -> "l" [] c = "M" -> "m"
    [] c = "N" -> "n" [] c = "S" -> "s" [] c = "U" -> "u" [] c = "Y" -> "y"
    [] c = "Z" -> "z" [] c = "Æ" -> "æ" [] c = "Ø" -> "ø" [] c = "Å" -> "å"
    [] c = "C" -> "c" [] c = "O" -> "o" [] c = "R" -> "r" [] c = "T" -> "t"
    [] OTHER -> c

ToLowerCase(s) == [k \in 1..Len(s) |-> Lower(s[k])]

RECURSIVE NormTail(_)
NormTail(s) ==
  IF s = <<>> THEN <<>>
  ELSE LET c == Head(s)
           r == NormTail(Tail(s))
       IN  CASE c = "æ" -> <<"a", "e">> \o r
             [] c = "ø" -> <<"o", "e">> \o r
             [] c = "å" -> <<"a", "a">> \o r
             [] c \in {" ", "_", "-"} -> r
             [] OTHER -> <<c>> \o r

norm(s) == NormTail(ToLowerCase(s))

AliasTable08 ==
  { << <<"s", "j", "a", "e", "l", "l", "a", "n", "d">>, K_sjaelland >>,
    << <<"z", "e", "a", "l", "a", "n", "d">>, K_sjaelland >>,
    << <<"s", "j", "a", "l", "l", "a", "n", "d">>, K_sjaelland >>,
    << <<"f", "y", "n">>, K_fyn >>,
    << <<"f", "u", "n", "e", "n">>, K_fyn >>,
    << <<"j", "y", "l", "l", "a", "n", "d">>, K_jylland >>,
    << <<"j", "u", "t", "l", "a", "n", "d">>, K_jylland >>,
    << <<"j", "y", "l", "a", "n", "d">>, K_jylland >>,
    << <<"b", "o", "r", "n", "h", "o", "l", "m">>, K_bornholm >>,
    << <<"l", "o", "l", "l", "a", "n", "d">>, K_lolland_falster >>,
    << <<"f", "a", "l", "s", "t", "e", "r">>, K_lolland_falster >>,
    << <<"l", "o", "l", "l", "a", "n", "d", "f", "a", "l", "s", "t", "e", "r">>,
       K_lolland_falster >>,
    << <<"m", "o", "e", "n">>, K_moen >>,
    << <<"m", "o", "n">>, K_moen >>,
    << <<"m", "ø", "n">>, K_moen >>,
    << <<"a", "m", "a", "g", "e", "r">>, K_amager >> }

\* part_004's table lacks the identity entries fyn, jylland, bornholm, møn, amager
AliasTable04 ==
  { e \in AliasTable08 : e[1] \notin {K_fyn, K_jylland, K_bornholm, K_moen, K_amager} }

ALIAS(v) == IF v = "p004" THEN AliasTable04 ELSE AliasTable08

NoKey == <<"(null)">>

\* PRESETS and ALIAS are object literals: a lookup by a name they do not hold
\* reaches Object.prototype. Its members with a lower-case name are truthy.
N_constructor == <<"c", "o", "n", "s", "t", "r", "u", "c", "t", "o", "r">>
N_proto == <<"_", "_", "p", "r", "o", "t", "o", "_", "_">>
Inherited == {N_constructor, N_proto}
\* the value ALIAS[n] yields for an inherited name: a function, not a string
InheritedMember == <<"(function)">>

\* faulty resolver: no lower-casing
resolveCaseSensitive(v, q) ==
  LET n == NormTail(q)
      hits == {e \in ALIAS(v) : e[1] = n}
  IN  IF q \in PresetKeys THEN q
      ELSE IF hits # {} THEN (CHOOSE e \in hits : TRUE)[2]
      ELSE NoKey

\* resolveRegionName(q): exact lower-cased canonical key first, else the alias on
\* the normalized form, else null
resolveRegionName(v, q) ==
  LET ql == ToLowerCase(q)
      n == norm(q)
      hits == {e \in ALIAS(v) : e[1] = n}
  IN  IF ql \in PresetKeys \cup Inherited THEN ql
      ELSE IF hits # {} THEN (CHOOSE e \in hits : TRUE)[2]
      ELSE IF n \in Inherited THEN InheritedMember
      ELSE NoKey

\* faulty box test: the edges do not count
InBoxExclusive(p, k) ==
  LET b == PRESETS(k)
  IN  p.lat > b[1] /\ p.lat < b[2] /\ p.lng > b[3] /\ p.lng < b[4]

InBox(p, k) ==
  LET b == PRESETS(k)
  IN  p.lat >= b[1] /\ p.lat <= b[2] /\ p.lng >= b[3] /\ p.lng <= b[4]


(***************************************************************************)
(* Upstream listing rows and the Place built from a row.                   *)
(***************************************************************************)
R_hovedstaden == <<"H", "o", "v", "e", "d", "s", "t", "a", "d", "e", "n">>
R_unknown == <<"U", "n", "k", "n", "o", "w", "n">>

\* rows of BookingPlacesList; Lat / Lng are what Number(String(x).replace(",", "."))
\* makes of the Lat / Lng fields; the rows carry no Region field
RowA == [Uri |-> "a", PlaceID |-> 17, lat |-> 5530, lng |-> 1020,
         RegionName |-> <<>>, Title |-> "Shelter A"]
RowB == [Uri |-> "b", PlaceID |-> 3012, lat |-> NaN, lng |-> NaN,
         RegionName |-> R_hovedstaden, Title |-> ""]
RowC == [Uri |-> "c", PlaceID |-> NaN, lat |-> 5560, lng |-> 1250,
         RegionName |-> <<>>, Title |-> "Shelter C"]
Rows == {RowA, RowB, RowC}

IsFinite(x) == x # NaN /\ x # Null
\* JavaScript truthiness of a number-or-null
Truthy(x) == x # Null /\ x # NaN /\ x # 0

\* data/place_ids.json (part_004): slug -> numeric id, absent slugs give undefined
placeIdMap(uri) == IF uri = "a" THEN 17 ELSE Null

\* part_006: data.BookingPlacesList.map(p => ({title, url, lat, lng, region}))
MakePlace06(c) ==
  [ title |-> c.Title, slug |-> c.Uri, place_id |-> Null, lat |-> c.lat, lng |-> c.lng,
    region |-> R_unknown ]

\* the body of the row loop of fetchAllPlaces
MakePlace(v, c) ==
  LET placeId == IF IsFinite(c.PlaceID) /\ c.PlaceID \notin TYPE_IDS THEN c.PlaceID ELSE NaN
  IN  IF v = "p006" THEN MakePlace06(c)
      ELSE
      [ title |-> IF c.Title # "" THEN c.Title
                  ELSE IF v \in {"p004", "p005"} THEN c.Uri ELSE "Humanized:" \o c.Uri,
        slug |-> c.Uri,
        place_id |-> IF v = "p004" THEN placeIdMap(c.Uri)
                     ELSE IF IsFinite(placeId) THEN placeId ELSE Null,
        lat |-> IF IsFinite(c.lat) THEN c.lat ELSE Null,
        lng |-> IF IsFinite(c.lng) THEN c.lng ELSE Null,
        region |-> IF v = "p004" THEN <<>> ELSE c.RegionName ]

RECURSIVE MakePlaces(_, _)
MakePlaces(v, rows) ==
  IF rows = <<>> THEN <<>> ELSE <<MakePlace(v, Head(rows))>> \o MakePlaces(v, Tail(rows))

\* slugFromUrl(url): url is `${BASE}/sted/${uri}/`
slugFromUrl(pl) == pl.slug

(***************************************************************************)
(* The query of a request.                                                 *)
(***************************************************************************)
S_0910 == <<"2", "0", "2", "5", "-", "0", "9", "-", "1", "0">>
S_0930 == <<"2", "0", "2", "5", "-", "0", "9", "-", "3", "0">>
S_badMonth == <<"2", "0", "2", "5", "-", "1", "3", "-", "0", "1">>
S_slashes == <<"1", "0", "/", "0", "9", "/", "2", "0", "2", "5">>
R_funen == <<"F", "u", "n", "e", "n">>

BaseQuery ==
  [start |-> S_0910, nights |-> <<"1">>, regions |-> <<>>, maxPlaces |-> <<>>,
   inspect |-> FALSE, rebuildCache |-> FALSE]

Queries ==
  { BaseQuery,
    [BaseQuery EXCEPT !.start = S_0930, !.nights = <<"2">>],
    [BaseQuery EXCEPT !.regions = <<R_funen>>],
    [BaseQuery EXCEPT !.maxPlaces = <<"1">>, !.nights = <<>>],
    [BaseQuery EXCEPT !.start = S_badMonth],
    [BaseQuery EXCEPT !.start = S_slashes],
    [BaseQuery EXCEPT !.start = <<>>],
    [BaseQuery EXCEPT !.start = S_slashes, !.inspect = TRUE],
    [BaseQuery EXCEPT !.nights = <<"x">>],
    [BaseQuery EXCEPT !.rebuildCache = TRUE] }

\* `x || dflt`
OrDefault(s, dflt) == IF s = <<>> THEN dflt ELSE s

\* Math.max(lo, x): NaN if x is NaN
MathMax(lo, x) == IF x = NaN THEN NaN ELSE IF x > lo THEN x ELSE lo

\* const nights = Math.max(1, Number(req.query.nights || 1))
NightsOf(q) == MathMax(1, ToNumber(OrDefault(q.nights, <<"1">>)))
\* const maxPlaces = Math.max(0, Number(req.query.maxPlaces || 0))
MaxPlacesOf(q) == MathMax(0, ToNumber(OrDefault(q.maxPlaces, <<"0">>)))

\* part_006: Array.from({length: Number(nights)}, ...)
Nights06(q) == ToNumber(q.nights)

\* number of iterations of `for (let i = 0; i < nights; i++)`
LoopCount(n) == IF n = NaN THEN 0 ELSE n

\* the `needs` list: one ISO day per night, from the parsed start
NeedsOf(q) ==
  LET base == ParseDate(q.start)
  IN  [k \in 1..LoopCount(NightsOf(q)) |-> ToYMD(base + (k - 1))]

\* toISOString throws a RangeError on an Invalid Date
NeedsThrows(q) == ParseDate(q.start) = InvalidDate /\ LoopCount(NightsOf(q)) >= 1

\* part_006: new Date(String(start)) also takes the MM/DD/YYYY form (the server
\* runs in UTC)
MatchesMDY(s) ==
  /\ Len(s) = 10
  /\ s[3] = "/" /\ s[6] = "/"
  /\ \A k \in {1, 2, 4, 5, 7, 8, 9, 10} : s[k] \in Digits

ParseDate06(s) ==
  IF MatchesYMD(s) THEN ParseDate(s)
  ELSE IF MatchesMDY(s)
            /\ DigitsVal(SubSeq(s, 1, 2)) \in 1..12 /\ DigitsVal(SubSeq(s, 4, 5)) \in 1..31
       THEN DayNumber(DigitsVal(SubSeq(s, 7, 10)), DigitsVal(SubSeq(s, 1, 2)),
                      DigitsVal(SubSeq(s, 4, 5)))
       ELSE InvalidDate

NeedsOf06(q) ==
  LET base == ParseDate06(q.start)
  IN  [k \in 1..LoopCount(Nights06(q)) |-> ToYMD(base + (k - 1))]

NeedsThrows06(q) == ParseDate06(q.start) = InvalidDate /\ LoopCount(Nights06(q)) >= 1

\* "0NaN" + "NaN" + "01": the fields of an Invalid Date
BadParam == <<NaN, NaN, 1>>
\* monthParamFromStart (part_005, part_007): first day of the UTC month of the start
monthParamFromStart(start) ==
  LET dt == ParseDate(start)
  IN  IF dt = InvalidDate THEN BadParam ELSE <<ToYMD(dt)[1], ToYMD(dt)[2], 1>>

\* the `d` parameter of the calendar query, as the variant computes it
DateParam(v, start) ==
  LET y == DigitsVal(SubSeq(start, 1, 4))
      m == DigitsVal(SubSeq(start, 6, 7))
      d == DigitsVal(SubSeq(start, 9, 10))
  IN  CASE v \in {"p005", "p007a"} -> monthParamFromStart(start)
        [] v = "p004" -> <<y, m, 1>>
        [] v = "p006" -> IF MatchesYMD(start) THEN <<y, m, 0>> ELSE BadParam
        [] OTHER -> <<y, m, d>>


(***************************************************************************)
(* Upstream answers.                                                       *)
(***************************************************************************)
D_0910 == <<2025, 9, 10>>
D_1001 == <<2025, 10, 1>>

\* a parsed calendar body; hasBD: the object has a BookingDates key
\* st: "throw" (network error), "nonOK" (status), "garbage" (body is no JSON) or "json"
Cal(st, hasBD, full, partial) ==
  [st |-> st, hasBD |-> hasBD, BookingDates |-> full, PartialBookingDates |-> partial]
CalData ==
  { Cal("json", TRUE, {}, {}),
    Cal("json", TRUE, {D_0910}, {}),
    Cal("json", TRUE, {}, {D_0910}),
    Cal("json", TRUE, {D_1001}, {}),
    Cal("json", FALSE, {}, {}) }
NoData == Cal("none", FALSE, {}, {})

\* a request fails with a network error, a non-OK status or an unparseable body
Failures == {"throw", "nonOK", "garbage"}
CalOutcomes == {Cal(f, FALSE, {}, {}) : f \in Failures} \cup CalData

\* a detail page: is it longer than 500 characters, and the number each of the
\* six patterns of extractId matches in it (Null: no match)
Html(long, m1, m2, m6) ==
  [st |-> "ok", long |-> long, m |-> <<m1, m2, Null, Null, Null, m6>>]
NoHtml(st) == [st |-> st, long |-> FALSE, m |-> <<Null, Null, Null, Null, Null, Null>>]
Htmls ==
  { Html(TRUE, Null, Null, Null),
    Html(TRUE, 42, Null, Null),
    Html(TRUE, 3012, 42, Null),
    Html(TRUE, Null, Null, 3091),
    Html(FALSE, 42, Null, Null) }
DetailOutcomes == {NoHtml("throw"), NoHtml("nonOK")} \cup Htmls

(***************************************************************************)
(* CookieJar (part_005, part_007 first file, part_008).  A header line is a *)
(* character sequence, the jar a sequence of <<name, value>> in insertion   *)
(* order, as the Map keeps them.                                            *)
(***************************************************************************)
\* the Set-Cookie of the landing page
SessionCookie ==
  <<"A", "S", "P", "S", "E", "S", "S", "I", "O", "N", "I", "D", "=", "v", "1", ";", " ", "p", "a", "t", "h", "=", "/">>
SC_a1 == <<"a", "=", "1", ";", " ", "P", "a", "t", "h", "=", "/">>
SC_a2 == <<"a", "=", "2">>
SC_b1 == <<"b", "=", "1", ";", " ", "P", "a", "t", "h", "=", "/">>
SC_exp ==
  <<"a", "=", "3", ";", " ", "E", "x", "p", "i", "r", "e", "s", "=", "W", "e", "d", ",", " ", "2", "1", " ", "O", "c", "t">>
\* the Set-Cookie header lines one response carries
SetCookieHeaders ==
  {<<>>, <<SC_a1>>, <<SC_a2>>, <<SC_b1>>, <<SC_exp>>, <<SC_a1, SC_b1>>, <<SC_a2, SC_b1>>}

\* res.headers.get("set-cookie"): the values of the header lines joined by ", "
\* (empty: null)
RECURSIVE HeaderGet(_)
HeaderGet(lines) ==
  IF lines = <<>> THEN <<>>
  ELSE IF Len(lines) = 1 THEN lines[1]
  ELSE lines[1] \o <<",", " ">> \o HeaderGet(Tail(lines))

\* /,(?=[^ ;]+=)/ matches the comma at position i
SplitsAt(s, i) ==
  /\ s[i] = ","
  /\ \E j \in (i + 2)..Len(s) :
       s[j] = "=" /\ \A m \in (i + 1)..(j - 1) : s[m] \notin {" ", ";"}

\* all.split(/,(?=[^ ;]+=)/)
RECURSIVE SplitCookies(_)
SplitCookies(s) ==
  LET cuts == {i \in 1..Len(s) : SplitsAt(s, i)}
      i == CHOOSE c \in cuts : \A d \in cuts : c <= d
  IN  IF cuts = {} THEN <<s>>
      ELSE <<SubSeq(s, 1, i - 1)>> \o SplitCookies(SubSeq(s, i + 1, Len(s)))

\* s.indexOf(c) + 1
IndexOf(s, c) ==
  LET at == {k \in 1..Len(s) : s[k] = c}
  IN  IF at = {} THEN 0 ELSE CHOOSE k \in at : \A j \in at : k <= j

\* s.trim()
Trim(s) ==
  LET keep == {k \in 1..Len(s) : s[k] # " "}
  IN  IF keep = {} THEN <<>>
      ELSE SubSeq(s, CHOOSE k \in keep : \A j \in keep : k <= j,
                     CHOOSE k \in keep : \A j \in keep : k >= j)

\* Map.set: a known name keeps its place
JarSet(j, name, value) ==
  IF \E k \in 1..Len(j) : j[k][1] = name
  THEN [k \in 1..Len(j) |-> IF j[k][1] = name THEN <<name, value>> ELSE j[k]]
  ELSE Append(j, <<name, value>>)

addFromSetCookieLine(j, line) ==
  LET semi == IndexOf(line, ";")
      first == IF semi = 0 THEN line ELSE SubSeq(line, 1, semi - 1)
      eq == IndexOf(first, "=")
      name == Trim(SubSeq(first, 1, eq - 1))
      value == Trim(SubSeq(first, eq + 1, Len(first)))
  IN  IF line # <<>> /\ eq > 1 /\ name # <<>> THEN JarSet(j, name, value) ELSE j

\* for (const p of parts) this.addFromSetCookieLine(p)
RECURSIVE AddLines(_, _)
AddLines(j, lines) ==
  IF lines = <<>> THEN j
  ELSE AddLines(addFromSetCookieLine(j, Head(lines)), Tail(lines))

addFromResponse(j, lines) ==
  LET raw == HeaderGet(lines)
  IN  IF raw = <<>> THEN j ELSE AddLines(j, SplitCookies(raw))

NoHeader == <<"(undefined)">>
RECURSIVE JoinCookies(_)
JoinCookies(j) ==
  IF j = <<>> THEN <<>>
  ELSE j[1][1] \o <<"=">> \o j[1][2]
       \o (IF Len(j) = 1 THEN <<>> ELSE <<";", " ">> \o JoinCookies(Tail(j)))

\* jar.header(): undefined for an empty jar, else "k1=v1; k2=v2"
header(j) == IF j = <<>> THEN NoHeader ELSE JoinCookies(j)

(***************************************************************************)
(* extractId.                                                              *)
(***************************************************************************)
RECURSIVE FirstFinite(_, _)
\* faulty extractId: the `!TYPE_IDS.has(id)` test is missing
FirstFinite(m, k) ==
  IF k > Len(m) THEN Null
  ELSE IF m[k] # Null /\ IsFinite(m[k]) THEN m[k]
  ELSE FirstFinite(m, k + 1)

RECURSIVE FirstAccepted(_, _)
\* part_008 / search.ts: the first pattern whose match is finite and not a type id
FirstAccepted(m, k) ==
  IF k > Len(m) THEN Null
  ELSE IF m[k] # Null /\ IsFinite(m[k]) /\ m[k] \notin TYPE_IDS THEN m[k]
  ELSE FirstAccepted(m, k + 1)

\* part_005: m = match1 || match2 || match6, then the finite / type-id test
FirstMatch05(m) ==
  IF m[1] # Null THEN m[1] ELSE IF m[2] # Null THEN m[2] ELSE m[6]

extractId(v, html) ==
  IF v = "p005"
  THEN LET id == FirstMatch05(html.m)
       IN  IF id # Null /\ IsFinite(id) /\ id \notin TYPE_IDS THEN id ELSE Null
  ELSE FirstAccepted(html.m, 1)

(***************************************************************************)
(* State.                                                                  *)
(***************************************************************************)
VARIABLES
  variant,       \* which variant of search.ts handles the request
  query,         \* req.query
  pc,            \* the handler's position
  jar,           \* CookieJar.jar: sequence of <<name, value>>
  reqs,          \* outbound requests issued so far, in order
  resp,          \* the HTTP response sent (status 0: none yet)
  listFor,       \* who called fetchAllPlaces: "main", "inspect", "build", "rebuild"
  p,             \* fetchAllPlaces: page index
  out,           \* fetchAllPlaces: places accumulated
  page,          \* fetchAllPlaces: the answer to its latest page request
  all,           \* handler: the catalog fetchAllPlaces returned
  places,        \* handler: candidates after region filter and maxPlaces
  needs,         \* handler: required nights
  dparam,        \* handler: the `d` parameter of the calendar queries
  idx,           \* index of the place being resolved / checked
  dv,            \* fetchDetailHTMLAll: index of the URL variant being tried
  cur,           \* per-place record of the calendar queries made for places[idx]
  hist,          \* verdicts of the places already handled, in order
  available,     \* handler: items
  availChecked,
  availErrors,
  ID_CACHE,      \* part_005: module-level Map slug -> id, NoCache when null
  bplaces,       \* buildIdCache: its own catalog
  buildMap,      \* buildIdCache: the map being built
  paced,         \* per stage: its throttle sleep completed since its latest request
  awaiting,      \* the handler is suspended in `await fetch(...)`
  inflight,      \* number of outbound requests that have not settled
  html,          \* what the latest detail-page fetch has come to
  upstream,      \* the days booked upstream, where a specification fixes them
  ui             \* the search page: its React state and the API call it awaits

vars ==
  <<variant, query, pc, jar, reqs, resp, listFor, p, out, page, all, places, needs, dparam,
    idx, dv,
    cur, hist, available, availChecked, availErrors, ID_CACHE, bplaces, buildMap,
    paced, awaiting, inflight, html, upstream, ui>>

netVars == <<jar, reqs>>
listVars == <<listFor, p, out, page>>
candVars == <<all, places, needs, dparam>>
loopVars == <<idx, dv, cur, hist>>
tallyVars == <<available, availChecked, availErrors>>
cacheVars == <<ID_CACHE, bplaces, buildMap>>
flowVars == <<paced, awaiting, inflight, html>>

NoCache == {<<"(null)", Null>>}
NoResp == [status |-> 0, kind |-> "none", count |-> 0, items |-> <<>>]
\* idQ / slugQ: "none" (query not issued), "ok", "fail"; data: the parsed body the
\* decision used; booked: the booked-date set the code made of it
NoCur == [idQ |-> "none", slugQ |-> "none", data |-> NoData, booked |-> {}, id |-> Null,
          verdict |-> "none"]

\* one entry of the request log.  kind: "warm", "list", "detail", "cal"
NoDate == <<0, 0, 0>>
Req(kind, by, id, slug, n, d) ==
  [kind |-> kind, by |-> by, id |-> id, slug |-> slug, n |-> n, d |-> d]

\* the answer to a list request: res ("ok", "padded", "fail"), rows (length of
\* BookingPlacesList) and got (the Uri of the usable rows)
NoPage == [res |-> "none", rows |-> 0, got |-> <<>>]
PageOf(o) ==
  [res |-> IF o.st \in Failures THEN "fail" ELSE IF o.st = "padded" THEN "padded" ELSE "ok",
   rows |-> o.len, got |-> [k \in 1..Len(o.usable) |-> o.usable[k].Uri]]

\* a Map as a set of <<key, value>> pairs
MapHas(map, k) == \E e \in map : e[1] = k
MapGet(map, k) == (CHOOSE e \in map : e[1] = k)[2]
MapSet(map, k, val) == {e \in map : e[1] # k} \cup {<<k, val>>}

(***************************************************************************)
(* Control flow of the async handler: every fetch is awaited, and the loops *)
(* sleep (`await new Promise(r => setTimeout(r, ms))`) between requests.    *)
(***************************************************************************)
Stages == {"list", "detail", "cal"}
Unpaced == [s \in Stages |-> FALSE]
\* a request of stage s has been issued
Issued(pd, s) == [pd EXCEPT ![s] = FALSE]
\* the throttle sleep of stage s has completed
Waited(pd, s) == [pd EXCEPT ![s] = TRUE]
\* a request of stage s, then the stage's sleep if the path taken has one
Pace(pd, s, sleeps) == IF sleeps THEN Waited(pd, s) ELSE Issued(pd, s)

\* the awaited promise settles (fulfilled or rejected)
Settle(n) == n - 1

\* the pending fetch settles and the handler resumes
Returned ==
  /\ awaiting
  /\ awaiting' = FALSE
  /\ inflight' = Settle(inflight)

(***************************************************************************)
(* Initial state: a request arrives.  The process may have served searches  *)
(* before, so part_005's ID_CACHE is either still null or holds a map that  *)
(* an earlier buildIdCache left.                                            *)
(***************************************************************************)
InitCaches == {NoCache, {}, {<<"a", 42>>}}

\* no page is open
NoUi == [page |-> "none", loading |-> FALSE, call |-> "idle", error |-> "null",
         results |-> 0, searches |-> 0]

Init ==
  /\ variant \in Variants
  /\ query \in Queries
  /\ pc = "start"
  /\ jar = <<>>
  /\ reqs = <<>>
  /\ resp = NoResp
  /\ listFor = "main"
  /\ p = 1
  /\ out = <<>>
  /\ page = NoPage
  /\ all = <<>>
  /\ places = <<>>
  /\ needs = <<>>
  /\ dparam = NoDate
  /\ idx = 1
  /\ dv = 1
  /\ cur = NoCur
  /\ hist = <<>>
  /\ available = <<>>
  /\ availChecked = 0
  /\ availErrors = 0
  /\ ID_CACHE \in (IF variant = "p005" THEN InitCaches ELSE {NoCache})
  /\ bplaces = <<>>
  /\ buildMap = {}
  /\ paced = Unpaced
  /\ awaiting = FALSE
  /\ inflight = 0
  /\ html = "none"
  /\ upstream = {}
  /\ ui = NoUi


(***************************************************************************)
(* Handler entry: query parsing, session warm-up, validation.              *)
(***************************************************************************)
Response(status, kind, items) ==
  [status |-> status, kind |-> kind, count |-> Len(items), items |-> items]

\* `if (!/^\d{4}-\d{2}-\d{2}$/.test(start)) return res.status(400)`, then the
\* loop that builds `needs` (a RangeError there reaches the outer catch: 500)
ValidateDecision(q) ==
  IF ~MatchesYMD(q.start) THEN "r400"
  ELSE IF NeedsThrows(q) THEN "r500"
  ELSE "main"

\* part_006: `if (!start || !nights) res.status(400)`
Validate06(q) == IF q.start = <<>> \/ q.nights = <<>> THEN "r400" ELSE "main"

\* what the handler does between the warm-up and its next request
AfterWarmDecision(v, q) ==
  CASE v = "p005" /\ q.inspect -> "inspect200"
    [] v = "p005" /\ ~q.inspect /\ q.rebuildCache -> "rebuild"
    [] v \in {"p007a", "p008"} /\ q.inspect -> "inspectList"
    [] OTHER -> ValidateDecision(q)

Apply(dec) ==
  /\ pc' = IF dec \in {"r400", "r500", "inspect200"} THEN "done" ELSE "list"
  /\ resp' = CASE dec = "r400" -> Response(400, "error", <<>>)
               [] dec = "r500" -> Response(500, "error", <<>>)
               [] dec = "inspect200" -> Response(200, "inspect", <<>>)
               [] OTHER -> resp
  /\ listFor' = CASE dec = "rebuild" -> "rebuild"
                  [] dec = "inspectList" -> "inspect"
                  [] OTHER -> "main"
  /\ p' = 1
  /\ out' = <<>>
  /\ page' = NoPage
  /\ needs' = IF dec = "main" THEN NeedsOf(query) ELSE needs
  /\ dparam' = IF dec = "main" THEN DateParam(variant, query.start) ELSE dparam

\* part_004, part_007 (second file): validation comes first; the jar variants
\* create the CookieJar and warm the session up before anything else
Begin ==
  /\ pc = "start"
  /\ CASE variant \in JarVariants ->
            /\ pc' = "warm"
            /\ UNCHANGED <<resp, listVars, needs, dparam>>
       [] variant = "p006" ->
            /\ pc' = IF Validate06(query) = "r400" THEN "done" ELSE "list06"
            /\ resp' = IF Validate06(query) = "r400"
                       THEN Response(400, "error", <<>>) ELSE resp
            /\ UNCHANGED <<listVars, needs, dparam>>
       [] OTHER -> Apply(ValidateDecision(query))
  /\ UNCHANGED <<variant, upstream, ui, query, netVars, all, places, loopVars, tallyVars, cacheVars,
                 flowVars>>

\* fetchWithJar(`${BASE}/soeg/?s1=3012`) inside try { } catch {}
WarmUp ==
  /\ pc = "warm"
  /\ \E o \in {"throw", "ok"} :
       jar' = IF o = "ok" THEN addFromResponse(jar, <<SessionCookie>>) ELSE jar
  /\ reqs' = Append(reqs, Req("warm", "", Null, "", 0, NoDate))
  /\ Apply(AfterWarmDecision(variant, query))
  /\ Returned
  /\ UNCHANGED <<variant, upstream, ui, query, all, places, loopVars, tallyVars, cacheVars, paced, html>>

(***************************************************************************)
(* CatalogFetcher: fetchAllPlaces, one page request per step.              *)
(***************************************************************************)
Min(a, b) == IF a < b THEN a ELSE b

\* the upstream lists its rows in a fixed order
RowRank(uri) == CASE uri = "a" -> 1 [] uri = "b" -> 2 [] uri = "c" -> 3

\* the usable rows of one page: up to two rows that follow the rows served so far
UsableSeqs(list) ==
  LET last == IF list = <<>> THEN 0 ELSE RowRank(list[Len(list)].slug)
      fresh == {r \in Rows : RowRank(r.Uri) > last}
      room == MaxCatalog - Len(list)
  IN  {<<>>}
      \cup (IF room >= 1 THEN {<<r>> : r \in fresh} ELSE {})
      \cup (IF room >= 2
            THEN {t \in fresh \X fresh : RowRank(t[1].Uri) < RowRank(t[2].Uri)}
            ELSE {})

\* the listing is stable during one run: buildIdCache's own fetchAllPlaces (part_005,
\* first search) is served the rows the handler's fetchAllPlaces was served
StableWith(for, list, o, target) ==
  for = "build" =>
    LET got == list \o MakePlaces("p005", o.usable)
    IN  /\ Len(got) <= Len(target)
        /\ \A k \in 1..Len(got) : got[k].slug = target[k].slug
        /\ (o.len < PageSize => Len(got) = Len(target))

\* a page body: strict JSON or JSON with stray padding, `len` rows of which
\* `usable` have a Uri
PageBodies(pg, list) ==
  { [st |-> b, len |-> n, usable |-> u] :
      b \in {"json", "padded"},
      n \in {0, 150} \cup (IF pg <= MaxFullPages THEN {PageSize} ELSE {}),
      u \in UsableSeqs(list) }

ListOutcomes(pg, list) ==
  {[st |-> f, len |-> 0, usable |-> <<>>] : f \in Failures}
  \cup {o \in PageBodies(pg, list) : Len(o.usable) <= o.len}

\* faulty getJSON: only a network error throws, any other answer counts as a page
ListFailsOnThrowOnly(v, o) == o.st = "throw"

\* getJSON throws on a non-OK status and on a body JSON.parse rejects;
\* fetchJsonISO (part_004) retries on the trailing {...} span
ListFails(v, o) ==
  o.st \in Failures \/ (o.st = "padded" /\ v # "p004")

\* faulty paging: only an empty page ends the loop
MorePagesWhileNonEmpty(rows, pg) == rows > 0 /\ pg + 1 <= PageLimit
\* faulty paging: `for (;;)`, the loop has no page bound
MorePagesUnbounded(rows, pg) == rows >= PageSize

\* `if (rows.length < ps) break` and the bound of the for loop
MorePages(rows, pg) == rows >= PageSize /\ pg + 1 <= PageLimit

\* one turn of the loop of fetchAllPlaces against an upstream that answers with
\* one of `outcomes`
FetchPageFrom(outcomes) ==
  /\ pc = "list"
  /\ variant \in PagingVariants
  /\ p <= PageLimit
  /\ reqs' = Append(reqs, Req("list", listFor, PageSize, "", p, NoDate))
  /\ \E o \in outcomes :
       /\ o.st \notin Failures => StableWith(listFor, out, o, all)
       /\ page' = PageOf(o)
       /\ IF ListFails(variant, o)
          THEN /\ pc' = "done"
               /\ resp' = Response(500, "error", <<>>)
               /\ paced' = Issued(paced, "list")
               /\ UNCHANGED <<p, out>>
          ELSE /\ out' = out \o MakePlaces(variant, o.usable)
               /\ p' = IF MorePages(o.len, p) THEN p + 1 ELSE p
               /\ pc' = IF MorePages(o.len, p) THEN "list" ELSE "listed"
               /\ paced' = Pace(paced, "list", o.len >= PageSize)
               /\ resp' = resp
  /\ Returned
  /\ html' = html
  /\ UNCHANGED <<variant, upstream, ui, query, jar, listFor, candVars, loopVars, tallyVars, cacheVars>>

FetchPage == FetchPageFrom(ListOutcomes(p, out))

(***************************************************************************)
(* RegionClassifier applied by the handler, and the maxPlaces cap.         *)
(***************************************************************************)
RECURSIVE ResolveAll(_, _)
\* regions.map(resolveRegionName).filter(Boolean)
ResolveAll(v, names) ==
  IF names = <<>> THEN <<>>
  ELSE LET k == resolveRegionName(v, Head(names))
       IN  (IF k = NoKey THEN <<>> ELSE <<k>>) \o ResolveAll(v, Tail(names))

HasCoords(pl) == pl.lat # Null /\ pl.lng # Null

\* `const [latMin, latMax, lonMin, lonMax] = PRESETS[k]` needs an array
HasBox(k) == k \in PresetKeys

\* keys.some(k => ...): the first key whose box holds the place
FirstBox(pl, keys) ==
  LET hits == {k \in 1..Len(keys) : HasBox(keys[k]) /\ InBox(pl, keys[k])}
  IN  IF hits = {} THEN 0 ELSE CHOOSE k \in hits : \A j \in hits : k <= j

Retained(pl, keys) == HasCoords(pl) /\ FirstBox(pl, keys) # 0

\* faulty labelling: the key replaces the region text the listing gave
LabelledAlways(v, pl, keys) == [pl EXCEPT !.region = keys[FirstBox(pl, keys)]]

\* `if (ok && !p.region) p.region = k`  (part_004: `if (inside) p.region = k`)
Labelled(v, pl, keys) ==
  IF v = "p004" \/ pl.region = <<>>
  THEN [pl EXCEPT !.region = keys[FirstBox(pl, keys)]]
  ELSE pl

\* keys.some reaches a key without a box before a box holds the place: the
\* destructuring throws a TypeError
SomeThrows(pl, keys) ==
  \E i \in 1..Len(keys) :
    /\ ~HasBox(keys[i])
    /\ \A j \in 1..(i - 1) : HasBox(keys[j]) /\ ~InBox(pl, keys[j])
FilterThrows(list, keys) ==
  \E k \in 1..Len(list) : HasCoords(list[k]) /\ SomeThrows(list[k], keys)

\* faulty filter: a place without coordinates passes
FilterRegionKeepsUnlocated(v, list, keys) ==
  LET kept == SelectSeq(list, LAMBDA pl : ~HasCoords(pl) \/ Retained(pl, keys))
  IN  [k \in 1..Len(kept) |->
         IF HasCoords(kept[k]) THEN Labelled(v, kept[k], keys) ELSE kept[k]]

RECURSIVE FilterRegion(_, _, _)
FilterRegion(v, list, keys) ==
  IF list = <<>> THEN <<>>
  ELSE (IF Retained(Head(list), keys) THEN <<Labelled(v, Head(list), keys)>> ELSE <<>>)
       \o FilterRegion(v, Tail(list), keys)

\* places.slice(0, maxPlaces) when maxPlaces > 0
Capped(list, mx) ==
  IF mx # NaN /\ mx > 0 THEN SubSeq(list, 1, Min(mx, Len(list))) ELSE list

Candidates(v, q, list) ==
  LET keys == ResolveAll(v, q.regions)
  IN  Capped(IF keys # <<>> THEN FilterRegion(v, list, keys) ELSE list, MaxPlacesOf(q))


(***************************************************************************)
(* Per-place control: which request a place starts with.                   *)
(***************************************************************************)
\* the identifier the calendar query of a place would use
IdFor(v, pl, cache) ==
  IF v = "p005"
  THEN (IF MapHas(cache, pl.slug) THEN MapGet(cache, pl.slug) ELSE Null)
  ELSE pl.place_id

FirstStep(v, pl, cache) ==
  CASE v = "p005" -> IF MapHas(cache, pl.slug) THEN "calId" ELSE "scrape"
    [] v \in {"p006", "p007a"} -> "calSlug"
    [] OTHER -> IF Truthy(pl.place_id) THEN "calId" ELSE "calSlug"

\* faulty loop: a calendar error ends the run
PcAtAbortAfterError(v, pls, i, cache) ==
  IF i > Len(pls) \/ cur.verdict = "error" THEN "respond" ELSE FirstStep(v, pls[i], cache)

\* faulty loop exit: past the last place the handler returns without responding
PcAtNoResponse(v, pls, i, cache) ==
  IF i > Len(pls) THEN "returned" ELSE FirstStep(v, pls[i], cache)

PcAt(v, pls, i, cache) == IF i > Len(pls) THEN "respond" ELSE FirstStep(v, pls[i], cache)
CurAt(v, pls, i, cache) ==
  IF i > Len(pls) THEN NoCur ELSE [NoCur EXCEPT !.id = IdFor(v, pls[i], cache)]

\* start of the availability loop
EnterAvail(pls, cache) ==
  /\ pc' = PcAt(variant, pls, 1, cache)
  /\ idx' = 1
  /\ dv' = 1
  /\ cur' = CurAt(variant, pls, 1, cache)
  /\ hist' = <<>>

\* next place of the id-resolution loop that has no place_id
NextUnresolved(pls, from) ==
  LET cand == {k \in from..Len(pls) : ~Truthy(pls[k].place_id)}
  IN  IF cand = {} THEN Len(pls) + 1 ELSE CHOOSE k \in cand : \A j \in cand : k <= j

\* the handler after `const allPlaces = await fetchAllPlaces(jar)`: region filter,
\* maxPlaces, then part_005 builds the cache if there is none, part_007 (second
\* file) and part_008 resolve missing ids, the others go to the calendar loop
AfterListMain ==
  /\ pc = "listed"
  /\ listFor = "main"
  /\ all' = out
  /\ p' = 1
  /\ out' = <<>>
  /\ page' = NoPage
  /\ IF FilterThrows(out, ResolveAll(variant, query.regions))
     THEN /\ places' = <<>>
          /\ pc' = "done"
          /\ resp' = Response(500, "error", <<>>)
          /\ UNCHANGED <<loopVars, listFor>>
     ELSE /\ places' = Candidates(variant, query, out)
          /\ resp' = resp
          /\ CASE variant = "p005" /\ ID_CACHE = NoCache ->
                    /\ pc' = "list"
                    /\ listFor' = "build"
                    /\ UNCHANGED loopVars
               [] variant \in {"p007b", "p008"} ->
                    /\ pc' = "resolve"
                    /\ idx' = NextUnresolved(places', 1)
                    /\ dv' = 1
                    /\ UNCHANGED <<cur, hist, listFor>>
               [] OTHER ->
                    /\ EnterAvail(places', ID_CACHE)
                    /\ UNCHANGED listFor
  /\ UNCHANGED <<variant, upstream, ui, query, netVars, needs, dparam, tallyVars, cacheVars,
                 flowVars>>

(***************************************************************************)
(* part_006: one list request with ps=500, then the substring region       *)
(* filter and the needsDates list.                                          *)
(***************************************************************************)
PageSize06 == 500

\* bodies whose rows all carry a Uri
ListOutcomes06 ==
  {[st |-> f, len |-> 0, usable |-> <<>>] : f \in Failures}
  \cup {[st |-> b, len |-> Len(u), usable |-> u] :
          b \in {"json", "padded"}, u \in UsableSeqs(<<>>)}

\* String.prototype.includes
Includes(hay, needle) ==
  \E i \in 0..(Len(hay) - Len(needle)) : SubSeq(hay, i + 1, i + Len(needle)) = needle

RECURSIVE Filter06(_, _)
\* places.filter(p => p.region?.toLowerCase().includes(regionLower))
Filter06(list, regionLower) ==
  IF list = <<>> THEN <<>>
  ELSE (IF Includes(ToLowerCase(Head(list).region), regionLower)
        THEN <<Head(list)>> ELSE <<>>) \o Filter06(Tail(list), regionLower)

Candidates06(q, list) ==
  IF q.regions # <<>> THEN Filter06(list, ToLowerCase(q.regions[1])) ELSE list

\* fetch(listUrl), response.json(), the map, the filter and needsDates; anything
\* thrown reaches the outer catch
FetchList06 ==
  /\ pc = "list06"
  /\ reqs' = Append(reqs, Req("list", "main", PageSize06, "", 1, NoDate))
  /\ \E o \in ListOutcomes06 :
       /\ page' = PageOf(o)
       /\ IF o.st # "json" \/ NeedsThrows06(query)
          THEN /\ pc' = "done"
               /\ resp' = Response(500, "error", <<>>)
               /\ UNCHANGED <<candVars, loopVars>>
          ELSE /\ all' = MakePlaces("p006", o.usable)
               /\ places' = Candidates06(query, all')
               /\ needs' = NeedsOf06(query)
               /\ dparam' = DateParam("p006", query.start)
               /\ EnterAvail(places', ID_CACHE)
               /\ resp' = resp
  /\ paced' = Issued(paced, "list")
  /\ Returned
  /\ html' = html
  /\ UNCHANGED <<variant, upstream, ui, query, jar, listFor, p, out, tallyVars, cacheVars>>

(***************************************************************************)
(* IdentifierResolver: fetchDetailHTMLAll + extractId (part_007 second     *)
(* file, part_008, search.ts).                                              *)
(***************************************************************************)
\* `res.ok` and `html && html.length > 500`
PlausibleBody(o) == o.st = "ok" /\ o.long

\* fetchDetailHTMLAll once its loop is over: the page, null, or the error of a
\* rejected fetch
HtmlOf(o) ==
  IF PlausibleBody(o) THEN "html" ELSE IF o.st = "throw" THEN "threw" ELSE "null"

DetailFetch ==
  /\ pc = "resolve"
  /\ idx <= Len(places)
  /\ reqs' = Append(reqs, Req("detail", "", Null, places[idx].slug, dv, NoDate))
  /\ \E o \in DetailOutcomes :
       IF o.st # "throw" /\ ~PlausibleBody(o) /\ dv = 1
       THEN \* try the ?noheadfoot=true variant
            /\ dv' = 2
            /\ paced' = Issued(paced, "detail")
            /\ html' = "pending"
            /\ UNCHANGED <<places, idx>>
       ELSE LET id == IF PlausibleBody(o) THEN extractId(variant, o) ELSE Null
            IN  /\ places' = IF Truthy(id) THEN [places EXCEPT ![idx].place_id = id]
                             ELSE places
                /\ idx' = NextUnresolved(places', idx + 1)
                /\ dv' = 1
                /\ paced' = Waited(paced, "detail")
                /\ html' = HtmlOf(o)
  /\ Returned
  /\ UNCHANGED <<variant, upstream, ui, query, pc, jar, resp, listVars, all, needs, dparam, cur, hist,
                 tallyVars, cacheVars>>

ResolveDone ==
  /\ pc = "resolve"
  /\ idx > Len(places)
  /\ EnterAvail(places, ID_CACHE)
  /\ UNCHANGED <<variant, upstream, ui, query, netVars, resp, listVars, candVars, tallyVars, cacheVars,
                 flowVars>>

(***************************************************************************)
(* part_005: buildIdCache and the on-the-fly scrape.                       *)
(***************************************************************************)
AfterListBuild ==
  /\ pc = "listed"
  /\ listFor \in {"build", "rebuild"}
  /\ bplaces' = out
  /\ buildMap' = {}
  /\ idx' = 1
  /\ pc' = "buildScrape"
  /\ p' = 1
  /\ out' = <<>>
  /\ page' = NoPage
  /\ UNCHANGED <<variant, upstream, ui, query, netVars, resp, listFor, candVars, dv, cur, hist,
                 tallyVars, ID_CACHE, flowVars>>

\* fetchDetailHTML throws on a non-OK status; buildIdCache ignores the error
ScrapedId05(o) == IF o.st = "ok" THEN extractId("p005", o) ELSE Null
\* part_005 fetchDetailHTML: one URL, `if (!res.ok) throw`, else res.text()
\* whatever its length
Html05(o) == IF o.st # "ok" THEN "threw" ELSE IF o.long THEN "html" ELSE "shortHtml"

BuildScrape ==
  /\ pc = "buildScrape"
  /\ idx <= Len(bplaces)
  /\ reqs' = Append(reqs, Req("detail", "", Null, bplaces[idx].slug, 1, NoDate))
  /\ \E o \in DetailOutcomes :
       /\ buildMap' = IF Truthy(ScrapedId05(o))
                      THEN MapSet(buildMap, bplaces[idx].slug, ScrapedId05(o))
                      ELSE buildMap
       /\ html' = Html05(o)
  /\ idx' = idx + 1
  /\ paced' = Waited(paced, "detail")
  /\ Returned
  /\ UNCHANGED <<variant, upstream, ui, query, pc, jar, resp, listVars, candVars, dv, cur, hist,
                 tallyVars, ID_CACHE, bplaces>>

\* `ID_CACHE = map`, then back in the handler
BuildDone ==
  /\ pc = "buildScrape"
  /\ idx > Len(bplaces)
  /\ ID_CACHE' = buildMap
  /\ bplaces' = <<>>
  /\ buildMap' = {}
  /\ IF listFor = "rebuild"
     THEN /\ pc' = "done"
          /\ resp' = Response(200, "cacheRebuilt", <<>>)
          /\ UNCHANGED loopVars
     ELSE /\ EnterAvail(places, buildMap)
          /\ resp' = resp
  /\ UNCHANGED <<variant, upstream, ui, query, netVars, listVars, candVars, tallyVars, flowVars>>


(***************************************************************************)
(* AvailabilityChecker.                                                    *)
(***************************************************************************)
\* toBookedSet (part_005, part_007): union of BookingDates and PartialBookingDates
toBookedSet(data) == data.BookingDates \cup data.PartialBookingDates

\* fetchBookedDatesFlex / part_004: `data?.BookingDates` only
FlexDates(data) == data.BookingDates

\* the result of one calendar query: it threw, it returned {ok: false}, or it
\* returned the booked dates
CalResult(kind, dates) == [kind |-> kind, dates |-> dates]

CalParse(v, by, o) ==
  IF o.st = "throw" THEN CalResult("threw", {})
  ELSE IF o.st \in {"nonOK", "garbage"}
       THEN CalResult(IF v \in {"p004", "p006"} THEN "threw" ELSE "fail", {})
  ELSE CASE v \in {"p005", "p007a"} -> CalResult("ok", toBookedSet(o))
         [] v = "p006" /\ ~o.hasBD -> CalResult("threw", {})
         [] v = "p008" /\ by = "slug" /\ ~o.hasBD -> CalResult("fail", {})
         [] OTHER -> CalResult("ok", FlexDates(o))

\* what follows a calendar query of the place pl
AfterCal(v, by, r, pl) ==
  CASE r.kind = "ok" -> "decide"
    [] r.kind = "threw" -> IF v = "p006" THEN "skip" ELSE "error"
    [] r.kind = "fail" /\ by = "id" ->
         IF v \in {"p007b", "p008"} THEN "toSlug" ELSE "error"
    [] r.kind = "fail" /\ by = "slug" ->
         CASE v = "p008" -> "skip"
           [] v = "p007b" -> "decideEmpty"
           [] OTHER -> IF Truthy(pl.place_id) THEN "toId" ELSE "error"

\* needs.some(d => booked.has(d))
Overlaps(nds, booked) == \E k \in 1..Len(nds) : nds[k] \in booked

Item(pl, id) ==
  [name |-> pl.title, slug |-> pl.slug, lat |-> pl.lat, lng |-> pl.lng,
   region |-> pl.region, place_id |-> id]

\* faulty decision: only the first required night is looked up
VerdictFirstNightOnly(step, nds, dates) ==
  CASE step \in {"decide", "decideEmpty"} ->
         IF nds # <<>> /\ nds[1] \in dates THEN "unavailable" ELSE "available"
    [] step = "error" -> "error"
    [] OTHER -> "skipped"

Verdict(step, nds, dates) ==
  CASE step \in {"decide", "decideEmpty"} ->
         IF Overlaps(nds, dates) THEN "unavailable" ELSE "available"
    [] step = "error" -> "error"
    [] OTHER -> "skipped"

\* faulty collection: the item is put in front (Array.prototype.unshift)
Unshift(items, it) == <<it>> \o items
\* available.push({...})
Push(items, it) == Append(items, it)

\* whether the path taken through the body of the availability loop reaches the
\* sleep at its end: part_006 has none, `if (!r.ok) { availErrors++; continue; }`
\* (part_005) and `if (!resp.ok) continue;` (part_008) jump over it
LoopSleeps(v, step, r) ==
  CASE v = "p006" -> FALSE
    [] v = "p005" -> r.kind # "fail"
    [] v = "p008" -> step # "skip"
    [] OTHER -> TRUE

\* the rest of the loop body once the place's queries are over (pd: the pacing
\* state the body leaves)
Conclude(step, dates, c, pd) ==
  LET verdict == Verdict(step, needs, dates)
  IN  /\ available' = IF verdict = "available"
                      THEN Push(available, Item(places[idx], c.id))
                      ELSE available
      /\ availChecked' = IF step \in {"decide", "decideEmpty"}
                            /\ variant \notin {"p004", "p006"}
                         THEN availChecked + 1 ELSE availChecked
      /\ availErrors' = IF step = "error" THEN availErrors + 1 ELSE availErrors
      /\ cur' = [c EXCEPT !.verdict = verdict]
      /\ pc' = "placeDone"
      /\ paced' = pd
      /\ UNCHANGED <<idx, dv, hist>>

\* the move to the next place
NextPlace ==
  /\ pc = "placeDone"
  /\ hist' = Append(hist, cur.verdict)
  /\ idx' = idx + 1
  /\ dv' = dv
  /\ pc' = PcAt(variant, places, idx + 1, ID_CACHE)
  /\ cur' = CurAt(variant, places, idx + 1, ID_CACHE)
  /\ UNCHANGED <<variant, upstream, ui, query, netVars, resp, listVars, candVars, tallyVars, cacheVars,
                 flowVars>>

Outcome(r) == IF r.kind = "ok" THEN "ok" ELSE "fail"

\* the identifier-keyed query `${BOOK}?i=<id>&d=<d>`
CalById ==
  /\ pc = "calId"
  /\ reqs' = Append(reqs, Req("cal", "i", cur.id, "", 0, dparam))
  /\ \E o \in CalOutcomes :
       LET r == CalParse(variant, "id", o)
           step == AfterCal(variant, "id", r, places[idx])
           c == [cur EXCEPT !.idQ = Outcome(r),
                            !.data = IF r.kind = "ok" THEN o ELSE cur.data,
                            !.booked = r.dates]
       IN  IF step = "toSlug"
           THEN /\ pc' = "calSlug"
                /\ cur' = c
                /\ paced' = Issued(paced, "cal")
                /\ UNCHANGED <<idx, dv, hist, tallyVars>>
           ELSE Conclude(step, r.dates, c, Pace(paced, "cal", LoopSleeps(variant, step, r)))
  /\ Returned
  /\ html' = html
  /\ UNCHANGED <<variant, upstream, ui, query, jar, resp, listVars, candVars, cacheVars>>

\* the slug-keyed query `${BOOK}?u=<slug>&d=<d>` (part_004: no key, the place
\* page as Referer)
CalBySlug ==
  /\ pc = "calSlug"
  /\ reqs' = Append(reqs, Req("cal", CASE variant = "p004" -> "referer"
                                       [] variant = "p006" -> "pid"
                                       [] OTHER -> "u",
                              Null, places[idx].slug, 0, dparam))
  /\ \E o \in CalOutcomes :
       LET r == CalParse(variant, "slug", o)
           step == AfterCal(variant, "slug", r, places[idx])
           c == [cur EXCEPT !.slugQ = Outcome(r),
                            !.data = IF r.kind = "ok" THEN o ELSE cur.data,
                            !.booked = r.dates]
       IN  IF step = "toId"
           THEN /\ pc' = "calId"
                /\ cur' = c
                /\ paced' = Issued(paced, "cal")
                /\ UNCHANGED <<idx, dv, hist, tallyVars>>
           ELSE Conclude(step, r.dates, c, Pace(paced, "cal", LoopSleeps(variant, step, r)))
  /\ Returned
  /\ html' = html
  /\ UNCHANGED <<variant, upstream, ui, query, jar, resp, listVars, candVars, cacheVars>>

\* part_005: the slug is not in ID_CACHE: scrape the detail page, put the id in
\* the cache, `if (!id) continue`
Scrape ==
  /\ pc = "scrape"
  /\ reqs' = Append(reqs, Req("detail", "", Null, places[idx].slug, 1, NoDate))
  /\ \E o \in DetailOutcomes :
       LET got == ScrapedId05(o)
       IN  /\ html' = Html05(o)
           /\ IF Truthy(got)
              THEN /\ ID_CACHE' = MapSet(ID_CACHE, places[idx].slug, got)
                   /\ cur' = [cur EXCEPT !.id = got]
                   /\ pc' = "calId"
                   /\ paced' = Waited(paced, "detail")
                   /\ UNCHANGED <<idx, dv, hist, tallyVars>>
              ELSE /\ ID_CACHE' = ID_CACHE
                   /\ Conclude("skip", {}, cur, Waited(paced, "detail"))
  /\ Returned
  /\ UNCHANGED <<variant, upstream, ui, query, jar, resp, listVars, candVars, bplaces, buildMap>>

\* res.status(200).json({count, items})
Respond ==
  /\ pc = "respond"
  /\ pc' = "done"
  /\ resp' = Response(200, IF variant = "p006" THEN "results" ELSE "search", available)
  /\ UNCHANGED <<variant, upstream, ui, query, netVars, listVars, candVars, loopVars, tallyVars,
                 cacheVars, flowVars>>

(***************************************************************************)
(* Inspect mode of part_007 (first file) and part_008.                     *)
(***************************************************************************)
AfterListInspect ==
  /\ pc = "listed"
  /\ listFor = "inspect"
  /\ IF out = <<>>
     THEN /\ pc' = "done"
          /\ resp' = Response(200, "inspect", <<>>)
     ELSE /\ pc' = IF variant = "p008" THEN "inspDetail" ELSE "inspProbe"
          /\ resp' = resp
  /\ dv' = 1
  /\ UNCHANGED <<variant, upstream, ui, query, netVars, listVars, candVars, idx, cur, hist,
                 tallyVars, cacheVars, flowVars>>

\* fetchDetailHTMLAll(pick.url, jar), not inside a try of its own
InspectDetail ==
  /\ pc = "inspDetail"
  /\ reqs' = Append(reqs, Req("detail", "", Null, out[1].slug, dv, NoDate))
  /\ \E o \in DetailOutcomes :
       CASE o.st = "throw" ->
              /\ pc' = "done"
              /\ resp' = Response(500, "error", <<>>)
              /\ dv' = dv
              /\ html' = "threw"
         [] o.st # "throw" /\ ~PlausibleBody(o) /\ dv = 1 ->
              /\ dv' = 2
              /\ html' = "pending"
              /\ UNCHANGED <<pc, resp>>
         [] OTHER ->
              /\ pc' = "inspProbe"
              /\ dv' = 1
              /\ html' = HtmlOf(o)
              /\ resp' = resp
  /\ paced' = Issued(paced, "detail")
  /\ Returned
  /\ UNCHANGED <<variant, upstream, ui, query, jar, listVars, candVars, idx, cur, hist, tallyVars,
                 cacheVars>>

D_probe08 == <<2025, 9, 7>>
D_probe07 == <<2025, 9, 1>>

\* the slug probe, inside try { } catch
InspectProbe ==
  /\ pc = "inspProbe"
  /\ reqs' = Append(reqs, Req("cal", "u", Null, out[1].slug, 0,
                              IF variant = "p008" THEN D_probe08 ELSE D_probe07))
  /\ pc' = "done"
  /\ resp' = Response(200, "inspect", <<>>)
  /\ paced' = Issued(paced, "cal")
  /\ Returned
  /\ html' = html
  /\ UNCHANGED <<variant, upstream, ui, query, jar, listVars, candVars, loopVars, tallyVars, cacheVars>>

(***************************************************************************)
(* Issuing a request.                                                      *)
(***************************************************************************)
\* the handler is about to await an upstream request
AwaitsUpstream ==
  \/ pc \in {"warm", "list", "list06", "calId", "calSlug", "scrape", "inspDetail",
             "inspProbe"}
  \/ (pc = "resolve" /\ idx <= Len(places))
  \/ (pc = "buildScrape" /\ idx <= Len(bplaces))

\* faulty send: the fetch is started but not awaited, the handler runs on
SendDetached ==
  /\ AwaitsUpstream
  /\ inflight < 3
  /\ awaiting' = awaiting
  /\ inflight' = inflight + 1
  /\ UNCHANGED <<variant, upstream, ui, query, pc, netVars, resp, listVars, candVars, loopVars,
                 tallyVars, cacheVars, paced, html>>

\* `await fetch(url, ...)`: the request leaves and the handler is suspended until
\* the promise settles
Send ==
  /\ AwaitsUpstream
  /\ ~awaiting
  /\ awaiting' = TRUE
  /\ inflight' = inflight + 1
  /\ UNCHANGED <<variant, upstream, ui, query, pc, netVars, resp, listVars, candVars, loopVars,
                 tallyVars, cacheVars, paced, html>>

(***************************************************************************)
(* Specification.                                                          *)
(***************************************************************************)
Next ==
  \/ Begin
  \/ Send
  \/ WarmUp
  \/ FetchPage
  \/ FetchList06
  \/ AfterListMain
  \/ DetailFetch
  \/ ResolveDone
  \/ AfterListBuild
  \/ BuildScrape
  \/ BuildDone
  \/ CalById
  \/ CalBySlug
  \/ Scrape
  \/ NextPlace
  \/ Respond
  \/ AfterListInspect
  \/ InspectDetail
  \/ InspectProbe

Spec == Init /\ [][Next]_vars

(***************************************************************************)
(* The search page: index.tsx (onSearch), the page that follows the          *)
(* component in RegionSelect.tsx (handleSearch) and part_001 (search).       *)
(* `results` is the number of rows shown.                                    *)
(***************************************************************************)
MaxSearches == 4
MaxItems == 2
Pages == {"index", "RegionSelect", "part_001"}

\* how the call `fetch("/api/search?...")` can end for the page
ApiOutcomes ==
  {[kind |-> "ok", items |-> n] : n \in 0..MaxItems}
  \cup {[kind |-> k, items |-> 0] : k \in {"notOkJson", "notOkText", "network", "unparseable"}}

InitPage ==
  /\ variant = "p008"
  /\ query = BaseQuery
  /\ pc = "start"
  /\ jar = <<>>
  /\ reqs = <<>>
  /\ resp = NoResp
  /\ listFor = "main"
  /\ p = 1
  /\ out = <<>>
  /\ page = NoPage
  /\ all = <<>>
  /\ places = <<>>
  /\ needs = <<>>
  /\ dparam = NoDate
  /\ idx = 1
  /\ dv = 1
  /\ cur = NoCur
  /\ hist = <<>>
  /\ available = <<>>
  /\ availChecked = 0
  /\ availErrors = 0
  /\ ID_CACHE = NoCache
  /\ bplaces = <<>>
  /\ buildMap = {}
  /\ paced = Unpaced
  /\ awaiting = FALSE
  /\ inflight = 0
  /\ html = "none"
  /\ upstream = {}
  /\ ui \in {[NoUi EXCEPT !.page = pg] : pg \in Pages}

pageFrame ==
  <<variant, upstream, query, pc, netVars, resp, listVars, candVars, loopVars, tallyVars,
    cacheVars, flowVars>>

\* the handler of the Search button, up to its `await fetch(...)`; the button is
\* `disabled={loading}`
onSearch ==
  /\ ui.call = "idle"
  /\ ~ui.loading
  /\ ui.searches < MaxSearches
  /\ ui' = [ui EXCEPT !.loading = TRUE,
                      !.call = "pending",
                      !.searches = @ + 1,
                      !.error = IF ui.page = "RegionSelect" THEN @ ELSE "null",
                      !.results = IF ui.page = "index" THEN 0 ELSE @]
  /\ UNCHANGED pageFrame

\* does the rest of the handler throw: `if (!res.ok) throw`, a rejected fetch,
\* a body `res.json()` cannot parse
Throws(pg, o) ==
  IF pg = "RegionSelect"
  THEN o.kind \in {"notOkText", "network", "unparseable"}
  ELSE o.kind # "ok"

\* is setLoading(false) reached: after the awaits in handleSearch, in `finally`
\* in onSearch and search
ResetsLoading(pg, o) == pg # "RegionSelect" \/ ~Throws(pg, o)

\* the rest of the handler once the call has settled
ApiSettles ==
  /\ ui.call = "pending"
  /\ \E o \in ApiOutcomes :
       ui' = [ui EXCEPT !.call = "idle",
                        !.loading = IF ResetsLoading(ui.page, o) THEN FALSE ELSE @,
                        !.results = IF Throws(ui.page, o) THEN @ ELSE o.items,
                        !.error = IF Throws(ui.page, o) /\ ui.page # "RegionSelect"
                                  THEN o.kind ELSE @]
  /\ UNCHANGED pageFrame

NextPage == onSearch \/ ApiSettles

SpecPage == InitPage /\ [][NextPage]_vars

(***************************************************************************)
(* Runs under fairness: every request sent is answered (the answer may be a *)
(* failure) and the handler takes its next step whenever it has one.        *)
(***************************************************************************)
LiveQueries ==
  { [BaseQuery EXCEPT !.maxPlaces = <<"1">>, !.nights = <<>>],
    [BaseQuery EXCEPT !.start = S_badMonth],
    [BaseQuery EXCEPT !.start = <<>>],
    [BaseQuery EXCEPT !.start = S_slashes, !.inspect = TRUE],
    [BaseQuery EXCEPT !.rebuildCache = TRUE] }

InitLive == Init /\ query \in LiveQueries

SpecLive == InitLive /\ [][Next]_vars /\ WF_vars(Next)

(***************************************************************************)
(* The RegionClassifier on its own: the handler at the point where          *)
(* fetchAllPlaces has returned, for more region names and catalogs than     *)
(* Spec draws; its one step is the handler's region filter.                 *)
(***************************************************************************)
MaxRegionCatalog == 3

N_Sjaelland == <<"S", "j", "æ", "l", "l", "a", "n", "d">>
N_SJAELLAND == <<"S", "J", "Æ", "L", "L", "A", "N", "D">>
N_sjaelland_ae == <<"s", "j", "a", "e", "l", "l", "a", "n", "d">>
N_SJAELLAND_AE == <<"S", "J", "A", "E", "L", "L", "A", "N", "D">>
N_zealand == <<"z", "e", "a", "l", "a", "n", "d">>
N_ZeaLand == <<"Z", "e", "a", "L", "a", "n", "d">>
N_FYN == <<"F", "Y", "N">>
N_LollandFalster == <<"L", "o", "l", "l", "a", "n", "d", " ", "F", "a", "l", "s", "t", "e", "r">>
N_Moen == <<"M", "ø", "n">>
N_atlantis == <<"a", "t", "l", "a", "n", "t", "i", "s">>
RegionNames ==
  {R_funen, K_fyn, K_lolland_falster, K_sjaelland, K_amager, N_Sjaelland, N_SJAELLAND, N_sjaelland_ae, N_SJAELLAND_AE, N_zealand,
   N_ZeaLand, N_FYN, N_LollandFalster, N_Moen, N_atlantis}
\* no name, one name, two names
RegionLists == {<<>>} \cup {<<x>> : x \in RegionNames} \cup (RegionNames \X RegionNames)

\* d: on Bornholm; e: on the corner of the fyn box, listed with a region text;
\* f: just north of the fyn box
R_syddanmark == <<"S", "y", "d", "d", "a", "n", "m", "a", "r", "k">>
RowD == [Uri |-> "d", PlaceID |-> 18, lat |-> 5510, lng |-> 1500,
         RegionName |-> <<>>, Title |-> "Shelter D"]
RowE == [Uri |-> "e", PlaceID |-> 19, lat |-> 5500, lng |-> 1080,
         RegionName |-> R_syddanmark, Title |-> "Shelter E"]
RowF == [Uri |-> "f", PlaceID |-> 20, lat |-> 5561, lng |-> 1070,
         RegionName |-> <<>>, Title |-> "Shelter F"]
RegionRows == <<RowA, RowB, RowC, RowD, RowE, RowF>>
\* the listings: rows in upstream order
RegionCatalogs ==
  LET picks == UNION {[1..n -> 1..Len(RegionRows)] : n \in 0..MaxRegionCatalog}
      ordered == {c \in picks : \A i, j \in 1..Len(c) : i < j => c[i] < c[j]}
  IN  {[k \in 1..Len(c) |-> RegionRows[c[k]]] : c \in ordered}

InitRegion ==
  /\ variant \in Variants \ {"p006"}
  /\ needs = <<D_0910>>
  /\ dparam = DateParam(variant, S_0910)
  /\ query \in {[BaseQuery EXCEPT !.regions = l] : l \in RegionLists}
  /\ pc = "listed"
  /\ jar = <<>>
  /\ reqs = <<>>
  /\ resp = NoResp
  /\ listFor = "main"
  /\ p = 1
  /\ out \in {MakePlaces(variant, c) : c \in RegionCatalogs}
  /\ page = NoPage
  /\ all = <<>>
  /\ places = <<>>
  /\ idx = 1
  /\ dv = 1
  /\ cur = NoCur
  /\ hist = <<>>
  /\ available = <<>>
  /\ availChecked = 0
  /\ availErrors = 0
  /\ ID_CACHE = NoCache
  /\ bplaces = <<>>
  /\ buildMap = {}
  /\ paced = Unpaced
  /\ awaiting = FALSE
  /\ inflight = 0
  /\ html = "none"
  /\ upstream = {}
  /\ ui = NoUi

NextRegion == AfterListMain

SpecRegion == InitRegion /\ [][NextRegion]_vars

(***************************************************************************)
(* The resolver on names that are not regions, and the region selections    *)
(* the search page can send: the handler at the point where fetchAllPlaces  *)
(* has returned.                                                            *)
(***************************************************************************)
N_toString == <<"t", "o", "S", "t", "r", "i", "n", "g">>
N_Constructor == <<"C", "o", "n", "s", "t", "r", "u", "c", "t", "o", "r">>
N_con_structor == <<"c", "o", "n", "-", "s", "t", "r", "u", "c", "t", "o", "r">>
OddNames == {K_fyn, N_atlantis, N_constructor, N_Constructor, N_con_structor,
             N_proto, N_toString}
\* RegionSelect.tsx REGION_KEYS, the value after "All regions" is toggled on
REGION_KEYS ==
  <<K_sjaelland, K_fyn, K_jylland, K_bornholm, K_lolland_falster, K_moen, K_amager>>
\* RegionSelect: the text of the button for a selection
buttonLabel(value) ==
  IF Len(value) = 0 \/ Len(value) = Len(REGION_KEYS) THEN "All regions"
  ELSE IF Len(value) = 1
       THEN CASE value[1] = K_sjaelland -> "Sjælland"
              [] value[1] = K_fyn -> "Fyn"
              [] value[1] = K_jylland -> "Jylland"
              [] value[1] = K_bornholm -> "Bornholm"
              [] value[1] = K_lolland_falster -> "Lolland-Falster"
              [] value[1] = K_moen -> "Møn"
              [] value[1] = K_amager -> "Amager"
              [] OTHER -> "1 region selected"
       ELSE "n regions selected"
\* RegionSelect: the "All regions" entry of the menu
toggleAll(value) == IF Len(value) = Len(REGION_KEYS) THEN <<>> ELSE REGION_KEYS
\* the selections the page sends as `region` parameters, and names typed into
\* the URL
NameLists ==
  {<<>>, toggleAll(<<>>)} \cup {<<x>> : x \in OddNames} \cup (OddNames \X OddNames)

InitNames ==
  /\ variant \in Variants \ {"p006"}
  /\ needs = <<D_0910>>
  /\ dparam = DateParam(variant, S_0910)
  /\ query \in {[BaseQuery EXCEPT !.regions = l] : l \in NameLists}
  /\ pc = "listed"
  /\ jar = <<>>
  /\ reqs = <<>>
  /\ resp = NoResp
  /\ listFor = "main"
  /\ p = 1
  /\ out \in {MakePlaces(variant, c) : c \in RegionCatalogs}
  /\ page = NoPage
  /\ all = <<>>
  /\ places = <<>>
  /\ idx = 1
  /\ dv = 1
  /\ cur = NoCur
  /\ hist = <<>>
  /\ available = <<>>
  /\ availChecked = 0
  /\ availErrors = 0
  /\ ID_CACHE = NoCache
  /\ bplaces = <<>>
  /\ buildMap = {}
  /\ paced = Unpaced
  /\ awaiting = FALSE
  /\ inflight = 0
  /\ html = "none"
  /\ upstream = {}
  /\ ui = NoUi

NextNames == AfterListMain

SpecNames == InitNames /\ [][NextNames]_vars

(***************************************************************************)
(* The session of one run on its own: a sequence of fetchWithJar calls on   *)
(* the run's CookieJar, the first being the warm-up.  Each log entry holds  *)
(* the Cookie header the request carried and the Set-Cookie lines of its    *)
(* response.                                                                *)
(***************************************************************************)
MaxExchanges == 3

InitJar ==
  /\ variant \in JarVariants
  /\ query = BaseQuery
  /\ pc = "warm"
  /\ jar = <<>>
  /\ reqs = <<>>
  /\ resp = NoResp
  /\ listFor = "main"
  /\ p = 1
  /\ out = <<>>
  /\ page = NoPage
  /\ all = <<>>
  /\ places = <<>>
  /\ needs = <<>>
  /\ dparam = NoDate
  /\ idx = 1
  /\ dv = 1
  /\ cur = NoCur
  /\ hist = <<>>
  /\ available = <<>>
  /\ availChecked = 0
  /\ availErrors = 0
  /\ ID_CACHE = NoCache
  /\ bplaces = <<>>
  /\ buildMap = {}
  /\ paced = Unpaced
  /\ awaiting = FALSE
  /\ inflight = 0
  /\ html = "none"
  /\ upstream = {}
  /\ ui = NoUi

\* fetchWithJar(url, init, jar): Cookie header from the jar, fetch, collect
fetchWithJar ==
  /\ Len(reqs) < MaxExchanges
  /\ \E sc \in SetCookieHeaders :
       /\ reqs' = Append(reqs, [cookie |-> header(jar), set |-> sc])
       /\ jar' = addFromResponse(jar, sc)
  /\ UNCHANGED <<variant, upstream, ui, query, pc, resp, listVars, candVars, loopVars, tallyVars,
                 cacheVars, flowVars>>

NextJar == fetchWithJar

SpecJar == InitJar /\ [][NextJar]_vars

(***************************************************************************)
(* The handler with an upstream that may never answer.  `await fetch(...)`  *)
(* is given no signal and no timer (fetchWithJar, part_008:84), so a        *)
(* request without an answer leaves the handler at its await.              *)
(***************************************************************************)
\* the request is sent and the upstream never answers
Stall ==
  /\ AwaitsUpstream
  /\ awaiting
  /\ pc' = "stalled"
  /\ UNCHANGED <<variant, upstream, ui, query, netVars, resp, listVars, candVars, loopVars, tallyVars,
                 cacheVars, flowVars>>

NextStall == Next \/ Stall

SpecStall == Init /\ [][NextStall]_vars

(***************************************************************************)
(* fetchAllPlaces against an upstream that has a full page for every page   *)
(* request.                                                                 *)
(***************************************************************************)
FullPages(list) ==
  {[st |-> "json", len |-> PageSize, usable |-> u] : u \in UsableSeqs(list)}

InitPaging ==
  /\ variant \in PagingVariants
  /\ needs = <<D_0910>>
  /\ dparam = DateParam(variant, S_0910)
  /\ query = BaseQuery
  /\ pc = "list"
  /\ jar = <<>>
  /\ reqs = <<>>
  /\ resp = NoResp
  /\ listFor = "main"
  /\ p = 1
  /\ out = <<>>
  /\ page = NoPage
  /\ all = <<>>
  /\ places = <<>>
  /\ idx = 1
  /\ dv = 1
  /\ cur = NoCur
  /\ hist = <<>>
  /\ available = <<>>
  /\ availChecked = 0
  /\ availErrors = 0
  /\ ID_CACHE = NoCache
  /\ bplaces = <<>>
  /\ buildMap = {}
  /\ paced = Unpaced
  /\ awaiting = FALSE
  /\ inflight = 0
  /\ html = "none"
  /\ upstream = {}
  /\ ui = NoUi

FetchFullPage == FetchPageFrom(FullPages(out))

NextPaging == Send \/ FetchFullPage

SpecPaging == InitPaging /\ [][NextPaging]_vars

(***************************************************************************)
(* extractId on its own: a detail page is in hand (html holds it here) and  *)
(* the one step applies extractId to it.                                    *)
(***************************************************************************)
\* what a pattern can capture: nothing, an identifier, a type id
Captures == {Null, 42, 77, 3012, 3091}
ExtractPages == {Html(TRUE, m1, m2, m6) : m1 \in Captures, m2 \in Captures, m6 \in Captures}

InitExtract ==
  /\ variant \in {"p005", "p007b", "p008"}
  /\ html \in ExtractPages
  /\ query = BaseQuery
  /\ pc = "extract"
  /\ jar = <<>>
  /\ reqs = <<>>
  /\ resp = NoResp
  /\ listFor = "main"
  /\ p = 1
  /\ out = <<>>
  /\ page = NoPage
  /\ all = <<>>
  /\ places = <<>>
  /\ needs = <<>>
  /\ dparam = NoDate
  /\ idx = 1
  /\ dv = 1
  /\ cur = NoCur
  /\ hist = <<>>
  /\ available = <<>>
  /\ availChecked = 0
  /\ availErrors = 0
  /\ ID_CACHE = NoCache
  /\ bplaces = <<>>
  /\ buildMap = {}
  /\ paced = Unpaced
  /\ awaiting = FALSE
  /\ inflight = 0
  /\ upstream = {}
  /\ ui = NoUi

\* const id = extractId(html)
Extract ==
  /\ pc = "extract"
  /\ cur' = [cur EXCEPT !.id = extractId(variant, html)]
  /\ pc' = "extracted"
  /\ UNCHANGED <<variant, upstream, ui, query, netVars, resp, listVars, candVars, idx, dv, hist,
                 tallyVars, cacheVars, flowVars>>

NextExtract == Extract

SpecExtract == InitExtract /\ [][NextExtract]_vars

(***************************************************************************)
(* The availability loop for a stay that crosses a month boundary           *)
(* (start 2025-09-30, two nights).  The upstream holds a set of booked days *)
(* for the places; the handler is at the first place of its loop.           *)
(***************************************************************************)
CrossMonthQuery == [BaseQuery EXCEPT !.start = S_0930, !.nights = <<"2">>]
MonthCatalogs == {<<RowA>>, <<RowC>>, <<RowA, RowC>>}

InitMonth ==
  /\ variant \in Variants \ {"p006"}
  /\ query = CrossMonthQuery
  /\ needs = NeedsOf(query)
  /\ dparam = DateParam(variant, query.start)
  /\ upstream \in SUBSET {D_0910, D_1001}
  /\ ui = NoUi
  /\ ID_CACHE = IF variant = "p005" THEN {<<"a", 17>>, <<"c", 42>>} ELSE NoCache
  /\ all \in {MakePlaces(variant, c) : c \in MonthCatalogs}
  /\ places = all
  /\ pc = PcAt(variant, places, 1, ID_CACHE)
  /\ cur = CurAt(variant, places, 1, ID_CACHE)
  /\ jar = <<>>
  /\ reqs = <<>>
  /\ resp = NoResp
  /\ listFor = "main"
  /\ p = 1
  /\ out = <<>>
  /\ page = NoPage
  /\ idx = 1
  /\ dv = 1
  /\ hist = <<>>
  /\ available = <<>>
  /\ availChecked = 0
  /\ availErrors = 0
  /\ bplaces = <<>>
  /\ buildMap = {}
  /\ paced = Unpaced
  /\ awaiting = FALSE
  /\ inflight = 0
  /\ html = "none"

NextMonth ==
  \/ Send
  \/ CalById
  \/ CalBySlug
  \/ NextPlace
  \/ Respond

SpecMonth == InitMonth /\ [][NextMonth]_vars

(***************************************************************************)
(* Observers used by the properties.                                       *)
(***************************************************************************)
\* one of the calendar queries of the current place returned a calendar
CalOk == cur.idQ = "ok" \/ cur.slugQ = "ok"
\* the place with this slug is among the items
InItems(slug) == \E k \in 1..Len(available) : available[k].slug = slug
\* a list request of the running fetch failed
ListFailed == page.res = "fail" \/ (page.res = "padded" /\ variant # "p004")
\* places decided available or unavailable so far
Decided == {k \in 1..Len(hist) : hist[k] \in {"available", "unavailable"}}
\* the list requests one call of fetchAllPlaces issued
ListReqs(run) == SelectSeq(reqs, LAMBDA r : r.kind = "list" /\ r.by = run)
Slugs(list) == [k \in 1..Len(list) |-> list[k].slug]

(***************************************************************************)
(* Properties.                                                             *)
(***************************************************************************)
\* C1: a candidate place for which neither the identifier-keyed nor the slug-keyed
\* calendar query succeeded (failed or not attempted) is never present in the items
C1_UnconfirmedNeverInItems ==
  (pc = "placeDone" /\ ~CalOk) => ~InItems(places[idx].slug)

\* C2: a candidate place whose calendar was retrieved is in the items if and only
\* if no required night is a member of the booked-date set, and it is counted as
\* checked rather than skipped
C2_InItemsIffNoRequiredNightBooked ==
  (pc = "placeDone" /\ CalOk) =>
    /\ InItems(places[idx].slug) <=> (\A k \in 1..Len(needs) : needs[k] \notin cur.booked)
    /\ cur.verdict \in {"available", "unavailable"}
    /\ (variant \notin {"p004", "p006"} => availChecked = Cardinality(Decided) + 1)

\* nights = 1, the calendar holds exactly the start date: unavailable, checked
C2_Witness ==
  /\ pc = "placeDone" /\ CalOk
  /\ query.start = S_0910 /\ needs = <<D_0910>>
  /\ cur.data.BookingDates = {D_0910} /\ cur.data.PartialBookingDates = {}
  /\ cur.verdict = "unavailable"
  /\ ~InItems(places[idx].slug)
  /\ availChecked = 1

\* C3: the booked-date set of the decision is the union of BookingDates and
\* PartialBookingDates; a place whose calendar lists a required night only under
\* PartialBookingDates is not in the items
C3_PartialDatesCountAsBooked ==
  (pc = "placeDone" /\ CalOk /\ variant # "p006") =>
    /\ cur.booked = cur.data.BookingDates \cup cur.data.PartialBookingDates
    /\ ((\E k \in 1..Len(needs) : needs[k] \in cur.data.PartialBookingDates)
          => ~InItems(places[idx].slug))

\* C4: no value of {3012, 3031, 3091} is ever a place's identifier, a value of the
\* identifier cache, or the identifier of a calendar query
C4_NoTypeIdAsIdentifier ==
  /\ \A list \in {out, all, places, bplaces} :
       \A k \in 1..Len(list) : list[k].place_id \notin TYPE_IDS
  /\ \A e \in ID_CACHE \cup buildMap : e[2] \notin TYPE_IDS
  /\ cur.id \notin TYPE_IDS
  /\ \A k \in 1..Len(reqs) : reqs[k].kind = "cal" => reqs[k].id \notin TYPE_IDS
  /\ \A k \in 1..Len(available) : available[k].place_id \notin TYPE_IDS

\* the row whose PlaceID is 3012 got its identifier from the detail page instead,
\* and the calendar was queried with it
C4_Witness ==
  /\ \E k \in 1..Len(places) : places[k].slug = "b" /\ places[k].place_id = 42
  /\ \E k \in 1..Len(reqs) : reqs[k].kind = "cal" /\ reqs[k].by = "i" /\ reqs[k].id = 42

C6_OnlyValidationAndCatalogErrors ==
  (pc = "done" /\ MatchesYMD(query.start) /\ ~query.inspect /\ ~query.rebuildCache
     /\ ~ListFailed)
    => (resp.status = 200 /\ resp.kind \in {"search", "results"})

\* C7: an error in the calendar fetch of one place never aborts the run: the
\* places after it are still handled, and decided by their own calendar
C7_CalendarErrorNeverAborts ==
  (\E k \in 1..Len(hist) : hist[k] \in {"error", "skipped"}) =>
    /\ resp.status \in {0, 200}
    /\ (pc = "done" => Len(hist) = Len(places))
    /\ (pc = "placeDone" /\ CalOk =>
          (InItems(places[idx].slug)
             <=> (\A k \in 1..Len(needs) : needs[k] \notin cur.booked)))

\* the first place's calendar fetch failed, the second place is reported available
C7_Witness ==
  /\ pc = "done" /\ resp.status = 200
  /\ Len(places) = 2
  /\ hist = <<"error", "available">>
  /\ resp.count = 1 /\ resp.items[1].slug = places[2].slug

\* C8: a start that does not match YYYY-MM-DD is rejected with status 400 before
\* any outbound request is issued
C8_RejectedBeforeAnyRequest ==
  ~MatchesYMD(query.start) =>
    /\ reqs = <<>>
    /\ (pc = "done" => resp.status = 400)

\* C9: fetchAllPlaces requests pages 1, 2, 3, ... with page size 200, stops after
\* the first page with fewer than 200 rows, and accumulates the usable rows of the
\* pages in page order
C9_PagesInOrderUntilShortPage ==
  [][(variant \in PagingVariants /\ pc = "list" /\ reqs' # reqs) =>
       /\ reqs'[Len(reqs')].kind = "list"
       /\ reqs'[Len(reqs')].n = Len(ListReqs(listFor)) + 1
       /\ reqs'[Len(reqs')].id = 200
       /\ (page # NoPage => page.rows = 200)
       /\ (pc' = "list" <=> (~ListFailed' /\ page'.rows = 200))
       /\ (pc' = "listed" <=> (~ListFailed' /\ page'.rows < 200))
       /\ (~ListFailed' => Slugs(out') = Slugs(out) \o page'.got)
    ]_vars

\* pages of 200, 200 and 150 rows: three requests, then the catalog is returned
C9_Witness ==
  /\ variant \in PagingVariants /\ pc = "listed"
  /\ Len(ListReqs(listFor)) = 3
  /\ page.rows = 150
  /\ Len(out) = 2 /\ Len(page.got) = 1

\* C10: the identifier-keyed query comes first; the slug-keyed query is issued if
\* and only if the identifier is absent or the identifier-keyed query failed
C10_IdFirstSlugAsFallback ==
  pc = "placeDone" =>
    /\ (Truthy(cur.id) => cur.idQ # "none")
    /\ (cur.slugQ # "none" <=> (~Truthy(cur.id) \/ cur.idQ = "fail"))

\* the catalog-provided identifier of the place with this slug (Null: none)
CatalogId(slug) ==
  LET at == {k \in 1..Len(all) : all[k].slug = slug}
  IN  IF at = {} THEN Null ELSE all[CHOOSE k \in at : TRUE].place_id
\* a detail page of the place with this slug was requested
DetailFor(slug) == \E k \in 1..Len(reqs) : reqs[k].kind = "detail" /\ reqs[k].slug = slug
LastReq(log) == log[Len(log)]

\* C11: a place with a catalog-provided identifier is queried with that identifier
\* and no detail page is fetched for it; a detail page is fetched only for a place
\* that has neither a catalog-provided nor a cached identifier
C11_CatalogIdThenCacheThenScrape ==
  ~query.inspect =>
    /\ \A k \in 1..Len(reqs) :
         reqs[k].kind = "detail" => ~Truthy(CatalogId(reqs[k].slug))
    /\ (pc = "placeDone" /\ Truthy(CatalogId(places[idx].slug)) =>
          /\ cur.id = CatalogId(places[idx].slug)
          /\ ~DetailFor(places[idx].slug))

\* C12: while a slug maps to an identifier in ID_CACHE no detail page is requested
\* for it and its calendar query uses the cached identifier; an on-the-fly scrape
\* that finds an identifier leaves it in ID_CACHE under the slug
C12_CachedSlugNotScrapedAgain ==
  [][(variant = "p005" /\ ~query.inspect) =>
       /\ (reqs' # reqs /\ LastReq(reqs').kind = "detail" =>
             ~MapHas(ID_CACHE, LastReq(reqs').slug))
       /\ (pc # "calId" /\ pc' = "calId" =>
             /\ MapHas(ID_CACHE', places'[idx'].slug)
             /\ cur'.id = MapGet(ID_CACHE', places'[idx'].slug))
    ]_vars

\* C13: a slug that is in ID_CACHE is in ID_CACHE after every step
C13_CacheEntriesNeverRemoved ==
  [][\A e \in ID_CACHE : e[1] # "(null)" => MapHas(ID_CACHE', e[1])]_vars

\* the list with the identifiers blanked (the resolver writes place_id later)
WithoutId(list) == [k \in 1..Len(list) |-> [list[k] EXCEPT !.place_id = Null]]

\* C14: with a region filter active (at least one requested name resolves to a key)
\* no place without coordinates is among the candidates; with no filter active the
\* candidates are the catalog unchanged (up to the maxPlaces cap); part_006 has no
\* bounding boxes, it filters on the region name
C14_UnlocatedExcludedIffFilterActive ==
  (variant # "p006" /\ ~query.inspect /\ all # <<>>) =>
    LET keys == ResolveAll(variant, query.regions)
    IN  /\ (keys # <<>> => \A k \in 1..Len(places) : HasCoords(places[k]))
        /\ (keys = <<>> => WithoutId(places) = WithoutId(Capped(all, MaxPlacesOf(query))))

\* region=Funen on a catalog of a (on Fyn) and b (no coordinates): only a remains
C14_Witness ==
  /\ variant # "p006" /\ ResolveAll(variant, query.regions) # <<>>
  /\ Len(all) = 2 /\ ~HasCoords(all[2])
  /\ Len(places) = 1 /\ places[1].slug = all[1].slug

\* C15: with at least one requested name resolving to a key, a place with
\* coordinates is a candidate if and only if its coordinates lie within the
\* bounding box, edges included, of at least one of the resolved keys
C15_RetainedIffInsideSomeBox ==
  (pc # "listed" /\ query.maxPlaces = <<>>) =>
    LET keys == ResolveAll(variant, query.regions)
    IN  keys # <<>> =>
          \A k \in 1..Len(all) :
            HasCoords(all[k]) =>
              ((\E j \in 1..Len(places) : places[j].slug = all[k].slug)
               <=> \E i \in 1..Len(keys) :
                     /\ PRESETS(keys[i])[1] <= all[k].lat /\ all[k].lat <= PRESETS(keys[i])[2]
                     /\ PRESETS(keys[i])[3] <= all[k].lng /\ all[k].lng <= PRESETS(keys[i])[4])

\* a catalog of a (on Fyn), c and d (elsewhere), region=Funen: a alone is a candidate
C15_Witness ==
  /\ pc # "listed" /\ query.regions = <<R_funen>>
  /\ Slugs(all) = <<"a", "c", "d">>
  /\ Slugs(places) = <<"a">>

C17_DateParamIsFirstOfMonth ==
  (variant # "p006" /\ ~query.inspect) =>
    \A k \in 1..Len(reqs) :
      reqs[k].kind = "cal" =>
        reqs[k].d = <<DigitsVal(SubSeq(query.start, 1, 4)),
                      DigitsVal(SubSeq(query.start, 6, 7)), 1>>

\* C18: when the request has passed validation and the search is answered, the
\* required nights are at least one day, as many days as the nights parameter says
\* when that is a whole number of at least 1, the first is the start date and each
\* next one is the day after
C18_NeedsAreNightsConsecutiveDays ==
  (resp.status = 200 /\ resp.kind \in {"search", "results"} /\ MatchesYMD(query.start)) =>
    /\ Len(needs) >= 1
    /\ (AllDigits(query.nights) /\ query.nights # <<>> /\ DigitsVal(query.nights) >= 1 =>
          Len(needs) = DigitsVal(query.nights))
    /\ needs[1] = <<DigitsVal(SubSeq(query.start, 1, 4)),
                    DigitsVal(SubSeq(query.start, 6, 7)),
                    DigitsVal(SubSeq(query.start, 9, 10))>>
    /\ \A k \in 1..(Len(needs) - 1) :
         DayNumber(needs[k + 1][1], needs[k + 1][2], needs[k + 1][3])
           = DayNumber(needs[k][1], needs[k][2], needs[k][3]) + 1

\* the Set-Cookie lines of the first n responses, in order of arrival
RECURSIVE Received(_)
Received(n) == IF n = 0 THEN <<>> ELSE Received(n - 1) \o reqs[n].set

\* C19: every request carries as its Cookie header the jar in the form
\* name1=value1; name2=value2, and the jar holds for each cookie name the value of
\* the most recent Set-Cookie line received for that name
C19_CookieHeaderIsJarLastWriteWins ==
  /\ jar = AddLines(<<>>, Received(Len(reqs)))
  /\ \A k \in 1..Len(reqs) : reqs[k].cookie = header(AddLines(<<>>, Received(k - 1)))

\* C20: no operation blocks indefinitely: a run that waits for an upstream answer
\* that never comes can still take a step (a timeout ends the wait, the place is
\* skipped and the run goes on to its response)
C20_StalledRequestTimesOut == pc = "stalled" => ENABLED <<NextStall>>_vars

\* C21: against an upstream that has a full page for every page request,
\* fetchAllPlaces issues at most 500 page requests, and after the 500th it returns
\* (with the rows it has accumulated) instead of asking for another page
C21_AtMost500PageRequests ==
  /\ Len(reqs) <= 500
  /\ \A k \in 1..Len(reqs) : reqs[k].kind = "list" /\ reqs[k].n = k
  /\ (Len(reqs) = 500 => pc = "listed")
  /\ (pc = "listed" => Len(reqs) = 500)

\* 500 full pages were requested and the catalog of two places is returned
C21_Witness ==
  /\ Len(reqs) = 500 /\ pc = "listed"
  /\ Len(out) = 2


\* the request just issued follows an earlier request of its own stage
FollowsSameStage(before, after) ==
  /\ after # before
  /\ \E k \in 1..Len(before) : before[k].kind = LastReq(after).kind

\* C22: between two consecutive outbound requests of the same stage (catalog
\* paging, detail scraping, calendar queries) the stage's pacing wait completes
\* before the later request is issued, whatever the outcome of the earlier one
C22_PacingWaitBetweenStageRequests ==
  [][FollowsSameStage(reqs, reqs') => paced[LastReq(reqs').kind]]_vars

RECURSIVE IsSubsequence(_, _)
\* a is b with some elements left out
IsSubsequence(a, b) ==
  IF a = <<>> THEN TRUE
  ELSE IF b = <<>> THEN FALSE
  ELSE IF Head(a) = Head(b) THEN IsSubsequence(Tail(a), Tail(b))
  ELSE IsSubsequence(a, Tail(b))

\* C23: the items, while they are collected and in the response, are a subsequence
\* of the catalog fetchAllPlaces returned: each catalog place at most once, in
\* catalog order, whichever places were skipped or found unavailable
C23_ItemsInCatalogOrder ==
  /\ IsSubsequence(Slugs(available), Slugs(all))
  /\ resp.kind \in {"search", "results"} => IsSubsequence(Slugs(resp.items), Slugs(all))

C23_Witness ==
  /\ resp.kind \in {"search", "results"}
  /\ Len(resp.items) = 2
  /\ resp.items[1].slug # resp.items[2].slug

\* C24: within one run at most one upstream request is in flight at any time: a
\* request is outstanding exactly while the handler is suspended at the await of
\* that request, so the next one is issued only after it has settled
C24_AtMostOneRequestInFlight ==
  /\ inflight \in {0, 1}
  /\ awaiting <=> inflight = 1
  /\ awaiting => AwaitsUpstream

\* a request is in flight after two earlier ones have settled
C24_Witness == inflight = 1 /\ awaiting /\ Len(reqs) >= 2 /\ pc = "calSlug"

\* the cookie one Set-Cookie line carries, as <<name, value>>
CookieOf(line) == addFromSetCookieLine(<<>>, line)[1]

\* C25: when the Set-Cookie value of a response aggregates several cookies, every
\* one of them is in the jar under its own name with its own value after the
\* response, and the jar holds no name that no received cookie had (a comma inside
\* an attribute such as Expires starts no cookie)
C25_AggregatedCookiesStoredSeparately ==
  reqs # <<>> =>
    LET set == LastReq(reqs).set
    IN  /\ \A k \in 1..Len(set) :
             (\A l \in (k + 1)..Len(set) : CookieOf(set[l])[1] # CookieOf(set[k])[1])
               => \E e \in 1..Len(jar) : jar[e] = CookieOf(set[k])
        /\ \A e \in 1..Len(jar) :
             \E n \in 1..Len(reqs) : \E k \in 1..Len(reqs[n].set) :
               jar[e][1] = CookieOf(reqs[n].set[k])[1]

\* a detail page has just been requested
DetailRequested == reqs' # reqs /\ LastReq(reqs').kind = "detail"

\* C26: the detail-page fetch requests the canonical URL first and the no-layout
\* variant second; the second is requested exactly when the first gave no OK body
\* of more than 500 characters, so the first either yields the page or is followed
\* by the second, and the fetch ends without a page only after the second
C26_SecondVariantWheneverFirstFails ==
  [][DetailRequested =>
       /\ LastReq(reqs').n = 2 <=> html = "pending"
       /\ LastReq(reqs').n = 1 => html' \in {"html", "pending"}
       /\ LastReq(reqs').n = 2 => html' \in {"html", "null", "threw"}]_vars

\* the patterns, in their order, whose captured value is finite and no type id
Acceptable(m) == {k \in 1..Len(m) : m[k] # Null /\ IsFinite(m[k]) /\ m[k] \notin TYPE_IDS}

\* C27: extractId returns the value of the first pattern, in the fixed order, whose
\* match is finite and not one of the excluded type ids (a later valid identifier
\* is returned when an earlier pattern matched a type id), and none only when no
\* pattern yields such a value
C27_FirstAcceptableMatchReturned ==
  pc = "extracted" =>
    IF Acceptable(html.m) = {} THEN cur.id = Null
    ELSE cur.id = html.m[CHOOSE k \in Acceptable(html.m) : \A j \in Acceptable(html.m) : k <= j]

\* the catalog entry a candidate stems from
CatalogEntry(pl) == all[CHOOSE k \in 1..Len(all) : all[k].slug = pl.slug]
\* the coordinates lie within the box of key k
Contains(k, pl) ==
  /\ PRESETS(k)[1] <= pl.lat /\ pl.lat <= PRESETS(k)[2]
  /\ PRESETS(k)[3] <= pl.lng /\ pl.lng <= PRESETS(k)[4]

\* C28: the region filter changes no field of a place but region; a place listed
\* with a region text keeps it; a retained place listed without one gets the first
\* requested key, in request order, whose bounding box contains it
C28_RegionSetOnlyWhenEmptyToFirstKey ==
  pc # "listed" =>
    LET keys == ResolveAll(variant, query.regions)
    IN  \A k \in 1..Len(places) :
          LET was == CatalogEntry(places[k])
              now == places[k]
          IN  /\ now = [was EXCEPT !.region = now.region]
              /\ was.region # <<>> => now.region = was.region
              /\ keys = <<>> => now.region = was.region
              /\ (was.region = <<>> /\ keys # <<>>) =>
                   \E i \in 1..Len(keys) :
                     /\ now.region = keys[i]
                     /\ Contains(keys[i], was)
                     /\ \A j \in 1..(i - 1) : ~Contains(keys[j], was)

\* region=amager&region=sjælland: c lies in both boxes and is labelled amager,
\* e keeps the region text of the listing although the fyn box holds it
C28_Witness ==
  /\ pc # "listed"
  /\ \/ /\ ResolveAll(variant, query.regions) = <<K_amager, K_sjaelland>>
        /\ \E k \in 1..Len(places) : places[k].slug = "c" /\ places[k].region = K_amager
     \/ /\ ResolveAll(variant, query.regions) = <<K_fyn>>
        /\ \E k \in 1..Len(places) : places[k].slug = "e" /\ places[k].region = R_syddanmark

\* C29: fetchBookedDatesFlex (part_008, search.ts) reports {ok: true, dates} only
\* for a response whose body parsed as JSON that contains BookingDates, on the
\* identifier-keyed path as on the slug-keyed path; when neither query had such a
\* response the result is {ok: false} and the place is not decided
C29_OkOnlyWithBookingDates ==
  (variant = "p008" /\ pc = "placeDone") =>
    /\ CalOk => (cur.data.st = "json" /\ cur.data.hasBD)
    /\ ~CalOk => cur.verdict \in {"skipped", "error"}

\* C30: at the end of the availability loop every candidate place has been counted
\* exactly once, as checked or as error: availChecked + availErrors is the number
\* of candidates, and there are no more items than checked places
C30_EveryCandidateCountedOnce ==
  (variant \in {"p005", "p007a", "p007b", "p008"} /\ pc = "respond") =>
    /\ availChecked + availErrors = Len(places)
    /\ Len(available) <= availChecked

\* C31: a listing body that strict JSON parsing rejects but that holds a JSON
\* object is recovered: the request does not fail, the run goes on and the rows of
\* the recovered object are added to the catalog being accumulated
C31_PaddedListingRecovered ==
  page.res = "padded" =>
    /\ pc \in {"list", "listed"}
    /\ resp = NoResp
    /\ Len(out) >= Len(page.got)
    /\ SubSeq(Slugs(out), Len(out) - Len(page.got) + 1, Len(out)) = page.got

\* the answer the decision about the current place used shows the days the
\* upstream holds in the month that was asked for, and no others
AnswerIsMonthOf(d) ==
  cur.data.BookingDates \cup cur.data.PartialBookingDates
    = {x \in upstream : x[1] = d[1] /\ x[2] = d[2]}

\* C32: a place that is in the items is booked upstream on none of its required
\* nights, also when a required night lies in the month after the start month
C32_NoItemBookedOnRequiredNight ==
  (pc = "placeDone" /\ CalOk /\ AnswerIsMonthOf(dparam)) =>
    (InItems(places[idx].slug) => \A k \in 1..Len(needs) : needs[k] \notin upstream)


\* C33: every key the region filter works with, resolveRegionName's value for a
\* requested name, is one of the seven keys of the bounding-box table, also for
\* names of built-in object properties such as "constructor"
C33_ResolvedKeysAreCanonical ==
  pc # "listed" =>
    \A i \in 1..Len(query.regions) :
      resolveRegionName(variant, query.regions[i]) \in PresetKeys \cup {NoKey}


\* the requested names that resolve to a key of the bounding-box table
CanonicalNames(v, names) ==
  SelectSeq(names, LAMBDA x : resolveRegionName(v, x) \in PresetKeys)

\* C34: requested names that resolve to no canonical key are ignored: when none
\* resolves the candidates are the full catalog, places without coordinates
\* included, as for a request without region; otherwise the candidates are those
\* of the resolving names alone
C34_UnresolvedNamesIgnored ==
  LET canon == CanonicalNames(variant, query.regions)
  IN  (pc # "listed" /\ Len(canon) < Len(query.regions)) =>
        /\ resp = NoResp
        /\ places = IF canon = <<>> THEN all
                    ELSE FilterRegion(variant, all, ResolveAll(variant, canon))


\* the places for which a request of this kind was issued
PlacesAsked(kind) == {reqs[k].slug : k \in {j \in 1..Len(reqs) : reqs[j].kind = kind}}

\* C35: with maxPlaces = N > 0 the candidates are the first N region-filtered
\* places in catalog order, and in the run at most N places have a detail page
\* scraped, at most N places pass through the availability loop, where the
\* calendar is checked, and the items are at most N
C35_MaxPlacesCapsTheRun ==
  LET N == MaxPlacesOf(query)
      keys == ResolveAll(variant, query.regions)
      filtered == IF keys # <<>> THEN FilterRegion(variant, all, keys) ELSE all
  IN  (N # NaN /\ N > 0 /\ ~query.inspect /\ ~query.rebuildCache) =>
        /\ pc \notin {"validate", "warm", "list", "listed"} =>
             Slugs(places) = Slugs(SubSeq(filtered, 1, Min(N, Len(filtered))))
        /\ Cardinality(PlacesAsked("detail")) <= N
        /\ Len(hist) <= N
        /\ Len(available) <= N


\* C36: provided every upstream request is answered and the handler keeps
\* running, every invocation ends, and it sends exactly one response: the step
\* that ends the run sends it, with status 200, 400 or 500, and no step follows
C36_TerminatesWithOneResponse ==
  /\ <>(pc = "done")
  /\ [][/\ resp = NoResp
        /\ (pc' = "done") = (resp' # NoResp)
        /\ resp' # NoResp => resp'.status \in {200, 400, 500}]_vars


\* a run that met a failed calendar query and still ended with its 200 response
C36_Witness == pc = "done" /\ resp.status = 200 /\ availErrors > 0 /\ Len(hist) > 0


\* C37: once the API call of a search has settled (success, non-OK response,
\* network failure or unparseable body) the loading flag is false again, so the
\* Search button is not left disabled
C37_LoadingResetWhenCallSettles == ui.call = "idle" => ~ui.loading


\* C38: the two selections that RegionSelect shows as "All regions", no region
\* and all seven regions, give the same candidates, those of a request without
\* region: every place of the catalog, also a place without coordinates and a
\* place outside all seven boxes
C38_AllRegionsSelectionsAgree ==
  (pc # "listed" /\ buttonLabel(query.regions) = "All regions") =>
    (resp = NoResp /\ Slugs(places) = Slugs(all))

=============================================================================
